---- MODULE Spec2Model ----
(***************************************************************************)
(* Model of temba/flows/views.py (rapidpro): the flow CRUD views.          *)
(*                                                                         *)
(* Part 1: keyword triggers of a flow.  BaseFlowForm.clean_keyword_triggers*)
(* validates the submitted keywords, FlowCRUDL.Create.post_save creates    *)
(* one trigger per cleaned keyword and FlowCRUDL.Update.post_save          *)
(* reconciles the flow's triggers with the submitted keywords.             *)
(*                                                                         *)
(* Part 2: FlowCRUDL.Broadcast, which starts a flow for a set of           *)
(* recipients unless the flow is already being started.                    *)
(*                                                                         *)
(* Further parts: FlowCRUDL.ExportResults and the tasks enqueued on commit,*)
(* FlowCRUDL.ActivityChart, FlowCRUDL.Revisions with ChangeLanguage and    *)
(* Simulate (the calls of the engine), FlowCRUDL.Delete,                   *)
(* FlowCRUDL.ImportTranslation, FlowLabelForm and FlowLabelCRUDL, and      *)
(* FlowCRUDL.RunTable.  Each part has its own variables and its own        *)
(* specification; the requests of one part leave the other parts alone.    *)
(*                                                                         *)
(* A string is a sequence of one-character strings, so that lower(),       *)
(* strip(), the regex match, join/split and sorted() are computed.         *)
(***************************************************************************)
EXTENDS Integers, Sequences, FiniteSets, TLC

VARIABLES
    flows,      \* Flow table: flows[pk] is the flow_type of flow pk
    triggers,   \* Trigger table, in creation order (row id = index)
    last,       \* the last request: the view that accepted it, or its error
    starts,     \* FlowStart table: starts[flow][status] counts the rows
    org,        \* the org's is_suspended and is_flagged
    validated,  \* validated[flow]: Broadcast requests between is_valid() and save()
    response,   \* the last Broadcast POST: its flow, its form errors and, if
                \* the form was valid, the contact query save() will start with
    export_tasks, \* committed ExportFlowResultsTask rows: pk -> status
    next_pk,    \* the pk the next ExportFlowResultsTask row gets
    flow_saves, \* flow_saves[pk]: committed saves of flow pk by Update
    txns,       \* the open transactions of requests, with their on-commit hooks
    celery,     \* celery[task]: how many times the task was enqueued
    message,    \* what the last ExportResults POST told the user: the form's
                \* errors, or the message of form_valid
    path_counts, \* FlowPathCount rows of the flow (a set of rows)
    run_counts, \* FlowRunCount rows of the flow: run_counts[row] is how many
    chart,      \* the last ActivityChart: its histogram bucket and total_runs
    flow_obj,   \* the flow in the editor: its spec version and who saved it last
    revisions,  \* its FlowRevision rows, oldest first (revision = index)
    reply,      \* the last response to the editor (Revisions, ChangeLanguage,
                \* Simulate)
    mailroom,   \* the engine: "up", "down" or "unconfigured" (no MAILROOM_URL)
    flow_is_active, \* flow_is_active[f]: Flow.is_active of flow f
    flow_dependencies, \* Flow.flow_dependencies: <<f, g>> when flow f depends on flow g
    deleted, \* the last response of Delete
    org_languages, \* the language codes of the org
    po_files, \* the stored PO files: po_files[uuid] is the language the file declares
    imported, \* the languages of the revisions saved by ImportTranslation, in order
    translation, \* the last response of ImportTranslation
    labels, \* FlowLabel table: labels[id] is the name and the parent (0 for none)
    label_reply, \* the last FlowLabel request and the errors of its form
    flow_runs, \* FlowRun table of the flow: flow_runs[id] is modified_on and responded
    paging \* a paging through RunTable: its filter, the runs shown, the cursor of the next request and whether there is more

kvars == <<flows, triggers, last>>
bvars == <<starts, org, validated, response>>
evars == <<export_tasks, next_pk, flow_saves, txns, celery, message>>
avars == <<path_counts, run_counts, chart>>
rvars == <<flow_obj, revisions, reply, mailroom>>
dvars == <<flow_is_active, flow_dependencies, deleted>>
tvars == <<org_languages, po_files, imported, translation>>
lvars == <<labels, label_reply>>
pvars == <<flow_runs, paging>>
vars == <<flows, triggers, last, starts, org, validated, response,
          export_tasks, next_pk, flow_saves, txns, celery, message,
          path_counts, run_counts, chart, flow_obj, revisions, reply, mailroom,
          flow_is_active, flow_dependencies, deleted,
          org_languages, po_files, imported, translation,
          labels, label_reply,
          flow_runs, paging>>
\* what the requests of one part leave alone
not_kvars == <<bvars, evars, avars, rvars, dvars, tvars, lvars, pvars>>
not_bvars == <<kvars, evars, avars, rvars, dvars, tvars, lvars, pvars>>
not_evars == <<kvars, bvars, avars, rvars, dvars, tvars, lvars, pvars>>
not_avars == <<kvars, bvars, evars, rvars, dvars, tvars, lvars, pvars>>
not_rvars == <<kvars, bvars, evars, avars, dvars, tvars, lvars, pvars>>
not_dvars == <<kvars, bvars, evars, avars, rvars, tvars, lvars, pvars>>
not_tvars == <<kvars, bvars, evars, avars, rvars, dvars, lvars, pvars>>
not_lvars == <<kvars, bvars, evars, avars, rvars, dvars, tvars, pvars>>
not_pvars == <<kvars, bvars, evars, avars, rvars, dvars, tvars, lvars>>

----------------------------------------------------------------------------
(* Bounds                                                                  *)

\* flows created in a run
MaxFlows == 2
\* rows of the Trigger table
MaxTriggers == 2
\* rows of the FlowStart table
MaxStarts == 2
\* Broadcast requests in flight at a time, and open transactions at a time
MaxRequests == 2
\* ExportFlowResultsTask rows created
MaxExports == 2
\* saves of flows by Update
MaxUpdates == 2
\* flows of the org under Delete
MaxDependencyFlows == 3
\* PO files stored, and translations imported
MaxPoFiles == 2
MaxImports == 2
\* rows of the FlowLabel table
MaxLabels == 3
\* runs of the flow in RunTable, the values of their modified_on, and the
\* rows of a page (RunTable.paginate_by, which is 50, scaled to the runs)
MaxRuns == 4
MaxModifiedOn == 2
paginate_by == 2
\* FlowPathCount rows of a flow
MaxPathCounts == 2
\* FlowRunCount rows of a flow
MaxRunCounts == 3
\* FlowRevision rows of a flow
MaxRevisions == 3

----------------------------------------------------------------------------
(* Strings                                                                 *)

\* Trigger.KEYWORD_MAX_LEN, read at views.py:120 (set in temba/triggers/models.py)
KEYWORD_MAX_LEN == 16

\* code point of a character, as Python compares strings
Ord(c) ==
    CASE c = " " -> 32
      [] c = "," -> 44
      [] c = "-" -> 45
      [] c = "A" -> 65
      [] c = "B" -> 66
      [] c = "a" -> 97
      [] c = "b" -> 98

\* str.lower()
lower(s) ==
    [i \in 1..Len(s) |-> CASE s[i] = "A" -> "a" [] s[i] = "B" -> "b" [] OTHER -> s[i]]

IsSpace(c) == c = " "

RECURSIVE lstrip(_)
lstrip(s) == IF s # <<>> /\ IsSpace(Head(s)) THEN lstrip(Tail(s)) ELSE s

RECURSIVE rstrip(_)
rstrip(s) ==
    IF s # <<>> /\ IsSpace(s[Len(s)]) THEN rstrip(SubSeq(s, 1, Len(s) - 1)) ELSE s

\* str.strip()
strip(s) == rstrip(lstrip(s))

\* a character \w matches
IsWordChar(c) == c \in {"a", "b", "A", "B"}

\* regex.match(r"^\w+$", keyword, flags=regex.UNICODE | regex.V0)
regex_match_word(keyword) ==
    /\ Len(keyword) > 0
    /\ \A i \in 1..Len(keyword) : IsWordChar(keyword[i])

\* ",".join(cleaned_keywords)
RECURSIVE join(_)
join(keywords) ==
    IF keywords = <<>> THEN <<>>
    ELSE IF Len(keywords) = 1 THEN keywords[1]
    ELSE keywords[1] \o <<",">> \o join(Tail(keywords))

\* s.split(",")
RECURSIVE split(_)
split(s) ==
    IF \E i \in 1..Len(s) : s[i] = ","
    THEN LET p == CHOOSE i \in 1..Len(s) :
                      s[i] = "," /\ \A j \in 1..(i - 1) : s[j] # ","
         IN  <<SubSeq(s, 1, p - 1)>> \o split(SubSeq(s, p + 1, Len(s)))
    ELSE <<s>>

\* s < t for Python strings: lexicographic on code points
RECURSIVE StrLess(_, _)
StrLess(s, t) ==
    IF t = <<>> THEN FALSE
    ELSE IF s = <<>> THEN TRUE
    ELSE IF Ord(Head(s)) # Ord(Head(t)) THEN Ord(Head(s)) < Ord(Head(t))
    ELSE StrLess(Tail(s), Tail(t))

\* sorted(S) of a set of strings
RECURSIVE sorted(_)
sorted(S) ==
    IF S = {} THEN <<>>
    ELSE LET m == CHOOSE x \in S : \A y \in S \ {x} : StrLess(x, y)
         IN  <<m>> \o sorted(S \ {m})

\* set(seq)
ToSet(seq) == {seq[i] : i \in 1..Len(seq)}

----------------------------------------------------------------------------
(* Inputs                                                                  *)

\* a keyword one character longer than Trigger.KEYWORD_MAX_LEN
TooLong == [i \in 1..(KEYWORD_MAX_LEN + 1) |-> "a"]

\* keywords as typed: plain, upper case, padded, blank, ill-formed, too long
RawKeywords ==
    { <<"a">>, <<" ", "B", " ">>, <<" ">>, <<"a", "-">>, TooLong }

\* request.POST.getlist("keyword_triggers"): no keyword, one, or two in either
\* order (the same one twice included)
Submissions ==
    {<<>>} \cup {<<k>> : k \in RawKeywords}
           \cup {<<k1, k2>> : k1 \in RawKeywords, k2 \in RawKeywords}

\* Flow.TYPE_MESSAGE and Flow.TYPE_SURVEY.  A voice flow (IVRFlowUpdateForm)
\* goes through the same BaseFlowForm and post_save code as a messaging flow.
FlowTypes == {"M", "S"}

TYPE_KEYWORD == "K"

----------------------------------------------------------------------------
(* BaseFlowForm.clean_keyword_triggers                                     *)

\* the query without .exclude(flow=self.instance.pk)
existing_triggers_any_flow(trigs, instance, keyword) ==
    {i \in 1..Len(trigs) :
        /\ lower(trigs[i].keyword) = lower(keyword)
        /\ ~trigs[i].is_archived
        /\ trigs[i].is_active}

\* Trigger.objects.filter(org=org, keyword__iexact=keyword, is_archived=False,
\*                        is_active=True).exclude(flow=self.instance.pk)
\* (instance is 0 for the unsaved flow of Create, whose pk is None)
existing_triggers(trigs, instance, keyword) ==
    {i \in 1..Len(trigs) :
        /\ lower(trigs[i].keyword) = lower(keyword)
        /\ ~trigs[i].is_archived
        /\ trigs[i].is_active
        /\ trigs[i].flow # instance}

\* the for loop: blank keywords are skipped, the others are collected
RECURSIVE clean_loop(_, _, _, _)
clean_loop(trigs, instance, value, acc) ==
    IF value = <<>> THEN acc
    ELSE LET keyword == strip(lower(Head(value)))
             bad == \/ ~regex_match_word(keyword)
                    \/ Len(keyword) > KEYWORD_MAX_LEN
             dup == existing_triggers(trigs, instance, keyword) # {}
         IN  IF keyword = <<>>
             THEN clean_loop(trigs, instance, Tail(value), acc)
             ELSE clean_loop(trigs, instance, Tail(value),
                    [wrong_format |-> IF bad THEN Append(acc.wrong_format, keyword)
                                      ELSE acc.wrong_format,
                     duplicates |-> IF dup THEN Append(acc.duplicates, keyword)
                                    ELSE acc.duplicates,
                     cleaned_keywords |-> IF dup THEN acc.cleaned_keywords
                                          ELSE Append(acc.cleaned_keywords, keyword)])

\* the two raises in the other order
clean_raise_duplicates_first(r) ==
    IF r.duplicates # <<>>
    THEN [error |-> "duplicates", cleaned_data |-> <<>>]
    ELSE IF r.wrong_format # <<>>
    THEN [error |-> "wrong_format", cleaned_data |-> <<>>]
    ELSE [error |-> "", cleaned_data |-> join(r.cleaned_keywords)]

\* the end of the method: raise for wrong_format, then for duplicates, else
\* return the comma-joined string (error "" stands for a valid field)
clean_raise(r) ==
    IF r.wrong_format # <<>>
    THEN [error |-> "wrong_format", cleaned_data |-> <<>>]
    ELSE IF r.duplicates # <<>>
    THEN [error |-> "duplicates", cleaned_data |-> <<>>]
    ELSE [error |-> "", cleaned_data |-> join(r.cleaned_keywords)]

clean_keyword_triggers(trigs, instance, value) ==
    clean_raise(clean_loop(trigs, instance, value,
        [wrong_format |-> <<>>, duplicates |-> <<>>, cleaned_keywords |-> <<>>]))

----------------------------------------------------------------------------
(* Trigger rows                                                            *)

\* Trigger.objects.create(org=org, keyword=keyword, flow=obj, ...)
NewTrigger(obj, keyword) ==
    [flow |-> obj, keyword |-> keyword, trigger_type |-> TYPE_KEYWORD,
     is_archived |-> FALSE, is_active |-> TRUE, groups |-> {}]

----------------------------------------------------------------------------
(* FlowCRUDL.Create.post_save                                              *)

RECURSIVE create_each(_, _, _)
create_each(trigs, obj, keywords) ==
    IF keywords = <<>> THEN trigs
    ELSE create_each(Append(trigs, NewTrigger(obj, Head(keywords))), obj, Tail(keywords))

Create_post_save(trigs, obj, flow_type, keyword_triggers) ==
    IF flow_type # "S" /\ Len(keyword_triggers) > 0
    THEN create_each(trigs, obj, split(keyword_triggers))
    ELSE trigs

----------------------------------------------------------------------------
(* FlowCRUDL.Update.post_save                                              *)

\* keywords of obj.triggers.filter(trigger_type=KEYWORD, is_archived=False, groups=None)
existing_keywords(trigs, obj) ==
    {trigs[i].keyword : i \in {j \in 1..Len(trigs) :
        /\ trigs[j].flow = obj
        /\ trigs[j].trigger_type = TYPE_KEYWORD
        /\ ~trigs[j].is_archived
        /\ trigs[j].groups = {}}}

\* set(cleaned_data["keyword_triggers"].split(",")), or set() for an empty string
submitted_keywords(keyword_triggers) ==
    IF Len(keyword_triggers) > 0 THEN ToSet(split(keyword_triggers)) ELSE {}

removed_keywords(existing, keywords) == existing \ keywords

\* removed keywords left as they are
archive_nothing(trigs, obj, removed) == trigs

\* removed keywords' rows deleted instead of archived
delete_removed(trigs, obj, removed) ==
    SelectSeq(trigs, LAMBDA t : ~(/\ t.flow = obj
                                  /\ t.keyword \in removed
                                  /\ t.groups = {}
                                  /\ ~t.is_archived))

\* removed keywords' rows archived whatever their groups
archive_removed_any_groups(trigs, obj, removed) ==
    [i \in 1..Len(trigs) |->
        IF /\ trigs[i].flow = obj
           /\ trigs[i].keyword \in removed
           /\ ~trigs[i].is_archived
        THEN [trigs[i] EXCEPT !.is_archived = TRUE]
        ELSE trigs[i]]

\* obj.triggers.filter(keyword=keyword, groups=None, is_archived=False)
\*     .update(is_archived=True), for each removed keyword
archive_removed(trigs, obj, removed) ==
    [i \in 1..Len(trigs) |->
        IF /\ trigs[i].flow = obj
           /\ trigs[i].keyword \in removed
           /\ trigs[i].groups = {}
           /\ ~trigs[i].is_archived
        THEN [trigs[i] EXCEPT !.is_archived = TRUE]
        ELSE trigs[i]]

\* every submitted keyword taken as added
added_all(existing, keywords) == keywords

added_keywords(existing, keywords) == keywords \ existing

\* no archived trigger ever found
archived_none(trigs, obj) == {}

\* keywords of obj.triggers.filter(trigger_type=KEYWORD, is_archived=True, groups=None)
archived_keywords(trigs, obj) ==
    {trigs[i].keyword : i \in {j \in 1..Len(trigs) :
        /\ trigs[j].flow = obj
        /\ trigs[j].trigger_type = TYPE_KEYWORD
        /\ trigs[j].is_archived
        /\ trigs[j].groups = {}}}

\* obj.triggers.filter(keyword=keyword, groups=None).update(is_archived=False)
reactivate(trigs, obj, keyword) ==
    [i \in 1..Len(trigs) |->
        IF /\ trigs[i].flow = obj
           /\ trigs[i].keyword = keyword
           /\ trigs[i].groups = {}
        THEN [trigs[i] EXCEPT !.is_archived = FALSE]
        ELSE trigs[i]]

\* sorted(S, reverse=True)
RECURSIVE sorted_reverse(_)
sorted_reverse(S) ==
    IF S = {} THEN <<>>
    ELSE LET m == CHOOSE x \in S : \A y \in S \ {x} : StrLess(y, x)
         IN  <<m>> \o sorted_reverse(S \ {m})

\* the order in which the added keywords are visited: sorted(added_keywords)
added_order(added) == sorted(added)

\* for keyword in sorted(added_keywords): reactivate or create
RECURSIVE add_each(_, _, _, _)
add_each(trigs, obj, archived, order) ==
    IF order = <<>> THEN trigs
    ELSE LET keyword == Head(order)
         IN  add_each(IF keyword \in archived
                      THEN reactivate(trigs, obj, keyword)
                      ELSE Append(trigs, NewTrigger(obj, keyword)),
                      obj, archived, Tail(order))

Update_post_save(trigs, obj, keyword_triggers) ==
    LET existing == existing_keywords(trigs, obj)
        keywords == submitted_keywords(keyword_triggers)
        after_removal == archive_removed(trigs, obj, removed_keywords(existing, keywords))
        added == added_keywords(existing, keywords)
    IN  add_each(after_removal, obj, archived_keywords(after_removal, obj),
                 added_order(added))

----------------------------------------------------------------------------
(* The views                                                               *)

\* Flow Create: the form is validated (instance is a new Flow, pk None),
\* then save() creates the flow and post_save() its triggers
CreateView(trigs, obj, flow_type, value) ==
    LET form == clean_keyword_triggers(trigs, 0, value)
    IN  [error |-> form.error,
         triggers |-> IF form.error = "" THEN
                          Create_post_save(trigs, obj, flow_type, form.cleaned_data)
                      ELSE trigs]

\* Flow Update of flow obj: get_form_class() picks SurveyFlowUpdateForm, which
\* has no keyword_triggers field, for a survey flow
UpdateView(trigs, obj, value) ==
    IF flows[obj] = "S" THEN [error |-> "", triggers |-> trigs]
    ELSE LET form == clean_keyword_triggers(trigs, obj, value)
         IN  [error |-> form.error,
              triggers |-> IF form.error = "" THEN
                               Update_post_save(trigs, obj, form.cleaned_data)
                           ELSE trigs]

FlowCreate ==
    /\ \E flow_type \in FlowTypes, value \in Submissions :
        \E r \in {CreateView(triggers, Len(flows) + 1, flow_type, value)} :
            /\ r.error = "" => Len(flows) < MaxFlows /\ Len(r.triggers) <= MaxTriggers
            /\ flows' = IF r.error = "" THEN Append(flows, flow_type) ELSE flows
            /\ triggers' = r.triggers
            /\ last' = IF r.error = "" THEN "create" ELSE r.error
    /\ UNCHANGED not_kvars

FlowUpdate ==
    /\ \E obj \in 1..Len(flows), value \in Submissions :
        \E r \in {UpdateView(triggers, obj, value)} :
            /\ Len(r.triggers) <= MaxTriggers
            /\ triggers' = r.triggers
            /\ last' = IF r.error = "" THEN "update" ELSE r.error
    /\ UNCHANGED <<flows, not_kvars>>

\* the contact groups a trigger can be restricted to
TriggerGroups == {{}, {"group1"}}

\* the groups of a trigger are set by the trigger's own views
TriggerGroupsChange ==
    /\ \E i \in 1..Len(triggers), groups \in TriggerGroups :
        /\ groups # triggers[i].groups
        /\ triggers' = [triggers EXCEPT ![i].groups = groups]
    /\ last' = "trigger groups"
    /\ UNCHANGED <<flows, not_kvars>>

InitKeywords ==
    /\ flows = <<>>
    /\ triggers = <<>>
    /\ last = "none"

----------------------------------------------------------------------------
(* FlowCRUDL.Broadcast: the form                                           *)

\* the flows a broadcast is requested for
BroadcastFlows == {"flow1", "flow2"}

\* FlowStart statuses: pending or starting (not finished), complete, failed
STATUS_PENDING == "P"
STATUS_COMPLETE == "C"
STATUS_FAILED == "F"
Statuses == {STATUS_PENDING, STATUS_COMPLETE, STATUS_FAILED}

\* Flow.is_starting(): the flow has a FlowStart that is not finished
is_starting(sts, flow) == sts[flow][STATUS_PENDING] > 0

\* Flow.async_start(user, groups, contacts, query, restart_participants,
\* include_active): a FlowStart row is saved and handed to the engine.  The
\* row keeps its flow and status; start_args is what the engine is given.
async_start(sts, flow, start_args) ==
    [sts EXCEPT ![flow][STATUS_PENDING] = @ + 1]

\* what the contact_query field is posted with: blank, malformed, well-formed
ContactQueries == { <<" ">>, <<"a", "-">>, <<" ", "A">> }

\* what the omnibox field is posted with: nothing, or a contact and a group
Omniboxes == { {}, {"c1", "g1"} }

BroadcastData ==
    [omnibox : Omniboxes, restart_participants : BOOLEAN, include_active : BOOLEAN,
     recipients_mode : {"select", "query"}, contact_query : ContactQueries]

\* temba.contacts.search.parse_query: SearchException for a malformed query,
\* else the parsed query, whose .query is the normalized text
parse_query(text) ==
    IF \E i \in 1..Len(text) : text[i] = "-"
    THEN [ok |-> FALSE, message |-> "SearchException", query |-> <<>>]
    ELSE [ok |-> TRUE, message |-> "", query |-> strip(lower(text))]

\* temba.contacts.omnibox.omnibox_deserialize
omnibox_deserialize(starting) ==
    [groups |-> starting \cap {"g1"}, contacts |-> starting \cap {"c1"}]

\* forms.CharField.to_python: the posted text, stripped
CharField_to_python(text) == strip(text)

\* a clean_contact_query that keeps the text as it was typed
clean_contact_query_as_typed(data) ==
    LET contact_query == CharField_to_python(data.contact_query)
    IN  IF data.recipients_mode = "query"
        THEN IF strip(contact_query) = <<>>
             THEN [error |-> "Contact query is required", value |-> <<>>]
             ELSE LET parsed == parse_query(contact_query)
                  IN  IF parsed.ok THEN [error |-> "", value |-> contact_query]
                      ELSE [error |-> parsed.message, value |-> <<>>]
        ELSE [error |-> "", value |-> contact_query]

\* BroadcastForm.clean_contact_query
clean_contact_query(data) ==
    LET contact_query == CharField_to_python(data.contact_query)
    IN  IF data.recipients_mode = "query"
        THEN IF strip(contact_query) = <<>>
             THEN [error |-> "Contact query is required", value |-> <<>>]
             ELSE LET parsed == parse_query(contact_query)
                  IN  IF parsed.ok THEN [error |-> "", value |-> parsed.query]
                      ELSE [error |-> parsed.message, value |-> <<>>]
        ELSE [error |-> "", value |-> contact_query]

\* BroadcastForm.clean_omnibox
clean_omnibox(data) ==
    IF data.recipients_mode = "select" /\ data.omnibox = {}
    THEN [error |-> "You must specify at least one contact or one group",
          value |-> omnibox_deserialize({})]
    ELSE [error |-> "", value |-> omnibox_deserialize(data.omnibox)]

\* the errors of the fields' own cleaning
field_errors(data) == {clean_omnibox(data).error, clean_contact_query(data).error} \ {""}

\* a clean() that does not look at org.is_flagged
clean_without_flagged_check(flow_is_starting, organization) ==
    IF flow_is_starting THEN "This flow is already being started"
    ELSE IF organization.is_suspended THEN "workspace is currently suspended"
    ELSE ""

\* BroadcastForm.clean: the first of its three checks that fails is raised
BroadcastForm_clean(flow_is_starting, organization) ==
    IF flow_is_starting THEN "This flow is already being started"
    ELSE IF organization.is_suspended THEN "workspace is currently suspended"
    ELSE IF organization.is_flagged THEN "workspace is currently flagged"
    ELSE ""

\* a form whose clean() returns early when a field has failed
errors_clean_skipped_after_field_error(sts, organization, flow, data) ==
    IF field_errors(data) # {} THEN field_errors(data)
    ELSE {BroadcastForm_clean(is_starting(sts, flow), organization)} \ {""}

\* form.errors after is_valid(): the fields are cleaned, then clean() runs
\* whether or not a field has failed
BroadcastForm_errors(sts, organization, flow, data) ==
    field_errors(data)
        \cup ({BroadcastForm_clean(is_starting(sts, flow), organization)} \ {""})

\* form.cleaned_data of a valid form
BroadcastForm_cleaned_data(data) ==
    [omnibox |-> clean_omnibox(data).value,
     restart_participants |-> data.restart_participants,
     include_active |-> data.include_active,
     recipients_mode |-> data.recipients_mode,
     contact_query |-> clean_contact_query(data).value]

\* Python's None
None == <<"None">>

\* Broadcast.save: the arguments of flow.async_start
Broadcast_save(cleaned_data) ==
    IF cleaned_data.recipients_mode = "query"
    THEN [groups |-> {}, contacts |-> {},
          contact_query |-> cleaned_data.contact_query,
          restart_participants |-> cleaned_data.restart_participants,
          include_active |-> cleaned_data.include_active]
    ELSE [groups |-> cleaned_data.omnibox.groups,
          contacts |-> cleaned_data.omnibox.contacts,
          contact_query |-> None,
          restart_participants |-> cleaned_data.restart_participants,
          include_active |-> cleaned_data.include_active]

\* a Broadcast POST up to the call of save(): the form errors, and for a valid
\* form the arguments save() will start the flow with
BroadcastView(sts, organization, flow, data) ==
    LET errors == BroadcastForm_errors(sts, organization, flow, data)
    IN  [errors |-> errors,
         valid |-> errors = {},
         start_args |-> IF errors = {}
                        THEN Broadcast_save(BroadcastForm_cleaned_data(data))
                        ELSE None]

----------------------------------------------------------------------------
(* FlowCRUDL.Broadcast: requests                                           *)

RECURSIVE SumOver(_, _)
SumOver(f, S) ==
    IF S = {} THEN 0
    ELSE LET x == CHOOSE y \in S : TRUE IN f[x] + SumOver(f, S \ {x})

\* rows in the FlowStart table
TotalStarts == SumOver([f \in BroadcastFlows |-> SumOver(starts[f], Statuses)], BroadcastFlows)

\* the request reads flow.is_starting() and the org in form.is_valid(); a
\* valid form goes on to save(), an invalid one is answered with its errors
BroadcastPost ==
    /\ \E flow \in BroadcastFlows, data \in BroadcastData :
        \E r \in {BroadcastView(starts, org, flow, data)} :
            /\ r.valid => SumOver(validated, BroadcastFlows) < MaxRequests
            /\ validated' = IF r.valid THEN [validated EXCEPT ![flow] = @ + 1]
                            ELSE validated
            /\ response' = [flow |-> flow, errors |-> r.errors,
                            contact_query |-> IF r.valid THEN r.start_args.contact_query
                                              ELSE None]
    /\ UNCHANGED <<starts, org, not_bvars>>

\* what save() can hand to async_start: the data of the forms whose fields
\* are all clean
ValidStartArgs ==
    {Broadcast_save(BroadcastForm_cleaned_data(d)) :
        d \in {x \in BroadcastData : field_errors(x) = {}}}

\* save() of a request whose form was valid: flow.async_start(...)
BroadcastSave ==
    /\ \E flow \in BroadcastFlows :
        /\ validated[flow] > 0
        /\ TotalStarts < MaxStarts
        /\ \E start_args \in ValidStartArgs :
            starts' = async_start(starts, flow, start_args)
        /\ validated' = [validated EXCEPT ![flow] = @ - 1]
    /\ UNCHANGED <<org, response, not_bvars>>

\* the engine finishes a start: complete or failed, set once
FlowStartFinishes ==
    /\ \E flow \in BroadcastFlows, status \in {STATUS_COMPLETE, STATUS_FAILED} :
        /\ starts[flow][STATUS_PENDING] > 0
        /\ starts' = [starts EXCEPT ![flow][STATUS_PENDING] = @ - 1,
                                    ![flow][status] = @ + 1]
    /\ UNCHANGED <<org, validated, response, not_bvars>>

\* the org is suspended or flagged, or released, outside these views
OrgChanges ==
    /\ \E o \in [is_suspended : BOOLEAN, is_flagged : BOOLEAN] :
        /\ o # org
        /\ org' = o
    /\ UNCHANGED <<starts, validated, response, not_bvars>>

InitBroadcast ==
    /\ starts = [f \in BroadcastFlows |-> [s \in Statuses |-> 0]]
    /\ org = [is_suspended |-> FALSE, is_flagged |-> FALSE]
    /\ validated = [f \in BroadcastFlows |-> 0]
    /\ response = [flow |-> "none", errors |-> {}, contact_query |-> None]

----------------------------------------------------------------------------
(* FlowCRUDL.ExportResults: the form                                       *)

\* ExportFlowResultsTask.MAX_CONTACT_FIELDS_COLS, MAX_GROUP_MEMBERSHIPS_COLS
MAX_CONTACT_FIELDS_COLS == 10
MAX_GROUP_MEMBERSHIPS_COLS == 25

\* the querysets of the form's fields: the org's active flows, its active
\* user fields and its ready user groups (by pk)
FlowsQueryset == BroadcastFlows
ContactFieldsQueryset == 1..(MAX_CONTACT_FIELDS_COLS + 1)
GroupsQueryset == 1..(MAX_GROUP_MEMBERSHIPS_COLS + 1)

\* what is posted: no flow or one; no field, as many fields as allowed, one
\* more, or one more together with a pk that is not a field of the org; no
\* group, as many groups as allowed, or one more
ExportData ==
    [flows : { {}, {"flow1"} },
     contact_fields : { {}, 1..MAX_CONTACT_FIELDS_COLS, ContactFieldsQueryset,
                        ContactFieldsQueryset \cup {0} },
     group_memberships : { {}, 1..MAX_GROUP_MEMBERSHIPS_COLS, GroupsQueryset }]

\* forms.ModelMultipleChoiceField.clean
ModelMultipleChoiceField_clean(value, queryset, required) ==
    IF value = {} /\ required THEN [error |-> "This field is required", value |-> {}]
    ELSE IF value \ queryset # {} THEN [error |-> "not a valid value", value |-> {}]
    ELSE [error |-> "", value |-> value]

\* the fields' own cleaning
ExportForm_fields(data) ==
    [flows |-> ModelMultipleChoiceField_clean(data.flows, FlowsQueryset, TRUE),
     contact_fields |->
        ModelMultipleChoiceField_clean(data.contact_fields, ContactFieldsQueryset, FALSE),
     group_memberships |->
        ModelMultipleChoiceField_clean(data.group_memberships, GroupsQueryset, FALSE)]

\* cleaned_data after the fields are cleaned: a field that failed has no key
ExportForm_cleaned_data(data) ==
    LET fields == ExportForm_fields(data)
    IN  [k \in {f \in DOMAIN fields : fields[f].error = ""} |-> fields[k].value]

TOO_MANY_FIELDS == "You can only include up to MAX_CONTACT_FIELDS_COLS contact fields"
TOO_MANY_GROUPS == "You can only include up to MAX_GROUP_MEMBERSHIPS_COLS groups"

\* a clean() that allows one selection less than the limits
ExportForm_clean_at_limit(cleaned_data) ==
    IF /\ "contact_fields" \in DOMAIN cleaned_data
       /\ Cardinality(cleaned_data["contact_fields"]) >= MAX_CONTACT_FIELDS_COLS
    THEN TOO_MANY_FIELDS
    ELSE IF /\ "group_memberships" \in DOMAIN cleaned_data
            /\ Cardinality(cleaned_data["group_memberships"]) >= MAX_GROUP_MEMBERSHIPS_COLS
    THEN TOO_MANY_GROUPS
    ELSE ""

\* ExportForm.clean
ExportForm_clean(cleaned_data) ==
    IF /\ "contact_fields" \in DOMAIN cleaned_data
       /\ Cardinality(cleaned_data["contact_fields"]) > MAX_CONTACT_FIELDS_COLS
    THEN TOO_MANY_FIELDS
    ELSE IF /\ "group_memberships" \in DOMAIN cleaned_data
            /\ Cardinality(cleaned_data["group_memberships"]) > MAX_GROUP_MEMBERSHIPS_COLS
    THEN TOO_MANY_GROUPS
    ELSE ""

\* form.errors after is_valid()
ExportForm_errors(data) ==
    LET fields == ExportForm_fields(data)
    IN  ({fields[f].error : f \in DOMAIN fields}
            \cup {ExportForm_clean(ExportForm_cleaned_data(data))}) \ {""}

----------------------------------------------------------------------------
(* FlowCRUDL.ExportResults.form_valid and the hand-off to the workers      *)

\* the pks of the flows
FlowPks == 1..Cardinality(BroadcastFlows)

\* the tasks handed to the workers
export_flow_results_task(pk) == [name |-> "export_flow_results_task", pk |-> pk]
update_run_expirations_task(pk) == [name |-> "update_run_expirations_task", pk |-> pk]
Tasks ==
    {export_flow_results_task(pk) : pk \in 1..MaxExports}
        \cup {update_run_expirations_task(pk) : pk \in FlowPks}

\* ExportFlowResultsTask.get_recent_unfinished(org): the unfinished exports
get_recent_unfinished(tasks) == {pk \in DOMAIN tasks : tasks[pk] = STATUS_PENDING}

\* task.delay(pk): the task is put on the queue
delay(queue, task) == [queue EXCEPT ![task] = @ + 1]

\* task.delay(pk) called in the view itself
delay_in_view(txn, queue, task) == [txn |-> txn, queue |-> delay(queue, task)]

\* on_transaction_commit(lambda: task.delay(pk)): the call is kept with the
\* request's transaction and made when that commits
on_transaction_commit(txn, queue, task) ==
    [txn |-> [txn EXCEPT !.on_commit = Append(@, task)], queue |-> queue]

IN_PROGRESS == "There is already an export in progress"
PREPARING == "We are preparing your export"

\* a form_valid that does not look for an unfinished export
form_valid_unchecked(tasks, pk, queue) ==
    LET export == [view |-> "ExportResults", pk |-> pk, on_commit |-> <<>>]
        handed == on_transaction_commit(export, queue, export_flow_results_task(pk))
    IN  [message |-> {PREPARING}, created |-> TRUE,
         txn |-> handed.txn, queue |-> handed.queue]

\* ExportResults.form_valid: the message, whether a row was created, and the
\* request's transaction (the new row, the calls kept for its commit)
ExportResults_form_valid(tasks, pk, queue) ==
    IF get_recent_unfinished(tasks) # {}
    THEN [message |-> {IN_PROGRESS}, created |-> FALSE,
          txn |-> [view |-> "ExportResults", pk |-> 0, on_commit |-> <<>>],
          queue |-> queue]
    ELSE LET export == [view |-> "ExportResults", pk |-> pk, on_commit |-> <<>>]
             handed == on_transaction_commit(export, queue, export_flow_results_task(pk))
         IN  [message |-> {PREPARING}, created |-> TRUE,
              txn |-> handed.txn, queue |-> handed.queue]

\* an ExportResults POST: an invalid form is shown again with its errors, a
\* valid one goes to form_valid
ExportResultsView(tasks, pk, queue, data) ==
    IF ExportForm_errors(data) # {}
    THEN [message |-> ExportForm_errors(data), created |-> FALSE,
          txn |-> [view |-> "ExportResults", pk |-> 0, on_commit |-> <<>>],
          queue |-> queue]
    ELSE ExportResults_form_valid(tasks, pk, queue)

\* Update.post_save, its last step: the task that updates the runs' expirations
Update_post_save_task(obj, queue) ==
    on_transaction_commit([view |-> "Update", pk |-> obj, on_commit |-> <<>>],
                          queue, update_run_expirations_task(obj))

RECURSIVE delay_each(_, _)
\* the calls kept for a commit are made in order
delay_each(queue, on_commit) ==
    IF on_commit = <<>> THEN queue
    ELSE delay_each(delay(queue, Head(on_commit)), Tail(on_commit))

\* a sequence without its i-th element
Without(seq, i) == [j \in 1..(Len(seq) - 1) |-> IF j < i THEN seq[j] ELSE seq[j + 1]]

ExportResultsPost ==
    /\ \E data \in ExportData :
        \E r \in {ExportResultsView(export_tasks, next_pk, celery, data)} :
            /\ r.created => Len(txns) < MaxRequests /\ next_pk <= MaxExports
            /\ txns' = IF r.created THEN Append(txns, r.txn) ELSE txns
            /\ next_pk' = IF r.created THEN next_pk + 1 ELSE next_pk
            /\ celery' = r.queue
            /\ message' = r.message
    /\ UNCHANGED <<export_tasks, flow_saves, not_evars>>

\* an Update request that was accepted: the flow is saved and post_save runs
UpdatePost ==
    /\ \E obj \in FlowPks :
        \E r \in {Update_post_save_task(obj, celery)} :
            /\ Len(txns) < MaxRequests
            /\ SumOver(flow_saves, FlowPks)
                  + Cardinality({i \in 1..Len(txns) : txns[i].view = "Update"}) < MaxUpdates
            /\ txns' = Append(txns, r.txn)
            /\ celery' = r.queue
    /\ UNCHANGED <<export_tasks, next_pk, flow_saves, message, not_evars>>

\* a request's transaction commits: its rows become visible, then the calls
\* kept for the commit are made
TransactionCommit ==
    /\ \E i \in 1..Len(txns) :
        /\ export_tasks' = IF txns[i].view = "ExportResults"
                           THEN [pk \in DOMAIN export_tasks \cup {txns[i].pk} |->
                                    IF pk = txns[i].pk THEN STATUS_PENDING
                                    ELSE export_tasks[pk]]
                           ELSE export_tasks
        /\ flow_saves' = IF txns[i].view = "Update"
                         THEN [flow_saves EXCEPT ![txns[i].pk] = @ + 1]
                         ELSE flow_saves
        /\ celery' = delay_each(celery, txns[i].on_commit)
        /\ txns' = Without(txns, i)
    /\ UNCHANGED <<next_pk, message, not_evars>>

\* a request's transaction rolls back: its rows and the calls kept are dropped
TransactionRollback ==
    /\ \E i \in 1..Len(txns) : txns' = Without(txns, i)
    /\ UNCHANGED <<export_tasks, next_pk, flow_saves, celery, message, not_evars>>

\* a worker that was handed an export finishes it
ExportFinishes ==
    /\ \E pk \in DOMAIN export_tasks, status \in {STATUS_COMPLETE, STATUS_FAILED} :
        /\ export_tasks[pk] = STATUS_PENDING
        /\ celery[export_flow_results_task(pk)] > 0
        /\ export_tasks' = [export_tasks EXCEPT ![pk] = status]
    /\ UNCHANGED <<next_pk, flow_saves, txns, celery, message, not_evars>>

InitExport ==
    /\ export_tasks = <<>>
    /\ next_pk = 1
    /\ flow_saves = [pk \in FlowPks |-> 0]
    /\ txns = <<>>
    /\ celery = [t \in Tasks |-> 0]
    /\ message = {"no request"}

----------------------------------------------------------------------------
(* FlowCRUDL.ActivityChart                                                 *)

\* a period is an hour, counted from 1970-01-01 00:00 (a Thursday)
HOUR == 1
DAY == 24
Periods == {0, 1, 21 * DAY, 500 * DAY}

\* FlowPathCount rows: the period, the count, and whether from_uuid is one of
\* the flow's waiting_exit_uuids
PathCountRows ==
    {[period |-> p, count |-> 1, waiting |-> TRUE] : p \in Periods}
        \cup {[period |-> 0, count |-> 0, waiting |-> TRUE],
              [period |-> 500 * DAY, count |-> 1, waiting |-> FALSE]}

\* FlowRun exit types; None is a run that has not exited
EXIT_TYPE_COMPLETED == "C"
EXIT_TYPE_INTERRUPTED == "I"
EXIT_TYPE_EXPIRED == "E"
EXIT_TYPE_NONE == "None"
EXIT_TYPES ==
    [x \in {EXIT_TYPE_NONE, EXIT_TYPE_COMPLETED, EXIT_TYPE_INTERRUPTED, EXIT_TYPE_EXPIRED} |->
        CASE x = EXIT_TYPE_NONE -> "active"
          [] x = EXIT_TYPE_COMPLETED -> "completed"
          [] x = EXIT_TYPE_INTERRUPTED -> "interrupted"
          [] x = EXIT_TYPE_EXPIRED -> "expired"]

\* FlowRunCount rows: a run that starts adds one to None, a run that exits
\* takes one from None and adds one to its exit type
RunCountRows ==
    {[exit_type |-> x, count |-> 1] : x \in DOMAIN EXIT_TYPES}
        \cup {[exit_type |-> EXIT_TYPE_NONE, count |-> -1]}

HISTOGRAM_MIN == 0
PERIOD_MIN == 0

RECURSIVE SumCounts(_)
\* Sum("count") over a set of rows
SumCounts(rows) ==
    IF rows = {} THEN 0
    ELSE LET r == CHOOSE x \in rows : TRUE IN r.count + SumCounts(rows \ {r})

SetMax(S) == CHOOSE x \in S : \A y \in S : y <= x
SetMin(S) == CHOOSE x \in S : \A y \in S : x <= y

\* extract(dow from period): 0 is Sunday
dow_of(period) == ((period \div DAY) + 4) % 7

\* the bucket and min_date with the limits themselves in the smaller class
histogram_bucket_inclusive(start_date, end_date) ==
    LET date_range == end_date - start_date
    IN  IF date_range <= 21 * DAY
        THEN [bucket |-> "hour", min_date |-> start_date - HOUR]
        ELSE IF date_range <= 500 * DAY
        THEN [bucket |-> "day", min_date |-> end_date - 100 * DAY]
        ELSE [bucket |-> "week", min_date |-> end_date - 500 * DAY]

\* the bucket of the main histogram and its min_date
histogram_bucket(start_date, end_date) ==
    LET date_range == end_date - start_date
    IN  IF date_range < 21 * DAY
        THEN [bucket |-> "hour", min_date |-> start_date - HOUR]
        ELSE IF date_range < 500 * DAY
        THEN [bucket |-> "day", min_date |-> end_date - 100 * DAY]
        ELSE [bucket |-> "week", min_date |-> end_date - 500 * DAY]

\* the rows of an exit type, each with the count of all its copies
rows_of(rc, x) ==
    {[row |-> q, count |-> q.count * rc[q]] :
        q \in {q \in DOMAIN rc : rc[q] > 0 /\ q.exit_type = x}}

\* a query that yields a sum for each kind of row instead of each exit type
exit_type_sums_ungrouped(rc) ==
    {[exit_type |-> q.exit_type, count__sum |-> q.count * rc[q]] :
        q \in {q \in DOMAIN rc : rc[q] > 0}}

\* counts.values("exit_type").annotate(Sum("count")): one sum per exit type
\* that has rows
exit_type_sums(rc) ==
    {[exit_type |-> x, count__sum |-> SumCounts(rows_of(rc, x))] :
        x \in {q.exit_type : q \in {q \in DOMAIN rc : rc[q] > 0}}}

RECURSIVE total_of(_)
\* total_runs += count["count__sum"], for each count in counts
total_of(counts) ==
    IF counts = {} THEN 0
    ELSE LET count == CHOOSE c \in counts : TRUE
         IN  count.count__sum + total_of(counts \ {count})

\* context[key] = count["count__sum"] for each count in counts, then 0 for
\* each state that has no key
context_states(counts) ==
    [state \in {"expired", "interrupted", "completed", "active"} |->
        IF \E c \in counts : EXIT_TYPES[c.exit_type] = state
        THEN (CHOOSE c \in counts : EXIT_TYPES[c.exit_type] = state).count__sum
        ELSE 0]

\* ActivityChart.get_context_data
ActivityChart_get_context_data(pc, rc) ==
    LET rows == {r \in pc : r.waiting}
        start_date == IF rows = {} THEN None ELSE SetMin({r.period : r \in rows})
        end_date == IF rows = {} THEN None ELSE SetMax({r.period : r \in rows})
        dow_dict == [d \in {dow_of(r.period) : r \in rows} |->
                        SumCounts({r \in rows : dow_of(r.period) = d})]
        dow == [x \in 0..6 |-> IF x \in DOMAIN dow_dict THEN dow_dict[x] ELSE 0]
        total_responses == SumOver(dow, 0..6)
        histogram == IF total_responses > HISTOGRAM_MIN
                     THEN histogram_bucket(start_date, end_date)
                     ELSE [bucket |-> "none", min_date |-> 0]
        counts == exit_type_sums(rc)
        by_state == context_states(counts)
    IN  [has_dow |-> total_responses > PERIOD_MIN,
         bucket |-> histogram.bucket, min_date |-> histogram.min_date,
         active |-> by_state["active"], completed |-> by_state["completed"],
         interrupted |-> by_state["interrupted"], expired |-> by_state["expired"],
         total_runs |-> total_of(counts),
         total_responses |-> total_responses]

\* the engine records a path count of the flow
PathCountAdded ==
    /\ \E row \in PathCountRows \ path_counts :
        /\ Cardinality(path_counts) < MaxPathCounts
        /\ path_counts' = path_counts \cup {row}
    /\ UNCHANGED <<run_counts, chart, not_avars>>

\* the engine records a run count of the flow
RunCountAdded ==
    /\ \E row \in RunCountRows :
        /\ SumOver(run_counts, RunCountRows) < MaxRunCounts
        /\ run_counts' = [run_counts EXCEPT ![row] = @ + 1]
    /\ UNCHANGED <<path_counts, chart, not_avars>>

\* GET of the chart
ActivityChartGet ==
    /\ \E context \in {ActivityChart_get_context_data(path_counts, run_counts)} :
        chart' = [bucket |-> context.bucket, total_runs |-> context.total_runs]
    /\ UNCHANGED <<path_counts, run_counts, not_avars>>

InitActivity ==
    /\ path_counts = {}
    /\ run_counts = [row \in RunCountRows |-> 0]
    /\ chart = [bucket |-> "no request", total_runs |-> 0]

----------------------------------------------------------------------------
(* FlowCRUDL.Revisions                                                     *)

\* a spec version is the sequence of its numbers: 13.1.0 is <<13, 1, 0>>
INITIAL_GOFLOW_VERSION == <<13, 0, 0>>
FINAL_LEGACY_VERSION == <<11, 12>>

Max2(a, b) == IF a >= b THEN a ELSE b

\* Version(a) < Version(b): the numbers are compared in order, a version
\* with fewer numbers counting as padded with zeros
VersionLess(a, b) ==
    LET n == Max2(Len(a), Len(b))
        pa == [i \in 1..n |-> IF i <= Len(a) THEN a[i] ELSE 0]
        pb == [i \in 1..n |-> IF i <= Len(b) THEN b[i] ELSE 0]
    IN  \E i \in 1..n : pa[i] < pb[i] /\ \A j \in 1..(i - 1) : pa[j] = pb[j]

\* the users: two editors of the org, and one without flows.flow_update
Users == {"editor1", "editor2", "viewer"}
has_org_perm(user) == user # "viewer"

\* what legacy migration and validation do with a stored definition
LegacyChecks == {"ok", "ValueError", "Exception"}

\* the revisions a flow made before the new engine can have: their spec
\* version and what legacy migration and validation do with them
LegacyRevisions ==
    {[spec_version |-> FINAL_LEGACY_VERSION, check |-> c] : c \in LegacyChecks}
        \cup {[spec_version |-> <<4>>, check |-> "ValueError"]}

\* the listing shows the latest revisions only
LIST_LIMIT == 100

\* a sequence in reverse order
Reversed(seq) == [i \in 1..Len(seq) |-> seq[Len(seq) + 1 - i]]

RECURSIVE list_revisions_unexpected_raised(_, _, _)
\* a listing that catches ValueError only
list_revisions_unexpected_raised(revs, ids, acc) ==
    IF ids = <<>> \/ acc.raised THEN acc
    ELSE LET revision == revs[Head(ids)]
         IN  IF ~VersionLess(revision.spec_version, INITIAL_GOFLOW_VERSION)
             THEN list_revisions_unexpected_raised(revs, Tail(ids),
                        [acc EXCEPT !.results = Append(@, Head(ids))])
             ELSE IF revision.check = "ok"
             THEN list_revisions_unexpected_raised(revs, Tail(ids),
                        [acc EXCEPT !.results = Append(@, Head(ids))])
             ELSE IF revision.check = "ValueError"
             THEN list_revisions_unexpected_raised(revs, Tail(ids), acc)
             ELSE list_revisions_unexpected_raised(revs, Tail(ids),
                        [acc EXCEPT !.raised = TRUE])

RECURSIVE list_revisions(_, _, _)
\* the loop of Revisions.get over the revisions ids: a revision of the new
\* engine is listed as it is; a legacy one is migrated and validated, and is
\* listed, or left out (ValueError), or left out and logged (Exception)
list_revisions(revs, ids, acc) ==
    IF ids = <<>> THEN acc
    ELSE LET revision == revs[Head(ids)]
         IN  IF ~VersionLess(revision.spec_version, INITIAL_GOFLOW_VERSION)
             THEN list_revisions(revs, Tail(ids),
                        [acc EXCEPT !.results = Append(@, Head(ids))])
             ELSE IF revision.check = "ok"
             THEN list_revisions(revs, Tail(ids),
                        [acc EXCEPT !.results = Append(@, Head(ids))])
             ELSE IF revision.check = "ValueError"
             THEN list_revisions(revs, Tail(ids), acc)
             ELSE list_revisions(revs, Tail(ids),
                        [acc EXCEPT !.logged = @ \cup {Head(ids)}])

\* flow.revisions.all().order_by("-revision")[:100]
latest_revisions(revs) ==
    SubSeq(Reversed([i \in 1..Len(revs) |-> i]), 1,
           IF Len(revs) < LIST_LIMIT THEN Len(revs) ELSE LIST_LIMIT)

\* Revisions.get without a revision id
Revisions_get(revs) ==
    list_revisions(revs, latest_revisions(revs),
                   [raised |-> FALSE, results |-> <<>>, logged |-> {}])

\* what is posted: a body that is not JSON, or a definition with the spec
\* version of the editor that loaded it and with what the engine will make
\* of it: accept it, find it invalid, or fail
Bodies ==
    {[json |-> FALSE, spec_version |-> <<>>, engine |-> "ok"]}
        \cup [json : {TRUE}, spec_version : {INITIAL_GOFLOW_VERSION, <<13, 1>>},
              engine : {"ok", "invalid", "fault"}]

\* Flow.save_revision(user, definition): raises if the flow's spec version is
\* newer than the definition's, if another user saved the flow last, if the
\* definition is invalid, or if something else fails; else the definition
\* becomes the flow's new revision
save_revision(fl, revs, user, definition) ==
    IF VersionLess(definition.spec_version, fl.version_number)
    THEN [raised |-> "FlowVersionConflictException", other_user |-> "",
          flow |-> fl, revisions |-> revs]
    ELSE IF fl.saved_by # user
    THEN [raised |-> "FlowUserConflictException", other_user |-> fl.saved_by,
          flow |-> fl, revisions |-> revs]
    ELSE IF definition.engine = "invalid"
    THEN [raised |-> "FlowValidationException", other_user |-> "",
          flow |-> fl, revisions |-> revs]
    ELSE IF definition.engine = "fault"
    THEN [raised |-> "Exception", other_user |-> "", flow |-> fl, revisions |-> revs]
    ELSE [raised |-> "", other_user |-> "",
          flow |-> [version_number |-> definition.spec_version, saved_by |-> user],
          revisions |-> Append(revs, [spec_version |-> definition.spec_version,
                                      created_by |-> user, check |-> "ValueError"])]

NO_PERMISSION == <<"You don't have permission to edit this flow">>
FAILED_VALIDATION == <<"Your flow failed validation. Please refresh your browser.">>
UPGRADED == <<"Your flow has been upgraded to the latest version. ",
              "In order to continue editing, please refresh your browser.">>
NOT_SAVED == <<"Your flow could not be saved. Please refresh your browser.">>
\* "%s is currently editing this Flow. ..." % other_user
currently_editing(other_user) ==
    <<other_user, " is currently editing this Flow. ",
      "Your changes will not be saved until you refresh your browser.">>

\* a handler that answers every conflict as a conflict of users
failure_all_user_conflicts(r) ==
    CASE r.raised = "FlowValidationException" -> FAILED_VALIDATION
      [] r.raised = "FlowVersionConflictException" -> currently_editing(r.other_user)
      [] r.raised = "FlowUserConflictException" -> currently_editing(r.other_user)
      [] OTHER -> NOT_SAVED

\* a handler that does not name the other user
failure_unnamed(r) ==
    CASE r.raised = "FlowValidationException" -> FAILED_VALIDATION
      [] r.raised = "FlowVersionConflictException" -> UPGRADED
      [] r.raised = "FlowUserConflictException" -> currently_editing("")
      [] OTHER -> NOT_SAVED

\* the except clauses of Revisions.post: the description of the failure
failure_description(r) ==
    CASE r.raised = "FlowValidationException" -> FAILED_VALIDATION
      [] r.raised = "FlowVersionConflictException" -> UPGRADED
      [] r.raised = "FlowUserConflictException" -> currently_editing(r.other_user)
      [] OTHER -> NOT_SAVED

\* traceback.print_stack(f) walks the frames from f: it raises
\* AttributeError when f is not a frame
traceback_print_stack(f) == IF f = "frame" THEN "" ELSE "AttributeError"

\* what the except clauses of Revisions.post raise themselves: the last one
\* calls traceback.print_stack(e) with the exception it caught
failure_raises(r) ==
    IF r.raised \in {"FlowValidationException", "FlowVersionConflictException",
                     "FlowUserConflictException"}
    THEN ""
    ELSE traceback_print_stack("exception")

\* a post that reads the body before it looks at the permission
Revisions_post_body_first(fl, revs, user, body) ==
    IF ~body.json
    THEN [code |-> 500, status |-> "uncaught", description |-> <<"JSONDecodeError">>,
          flow |-> fl, revisions |-> revs]
    ELSE IF ~has_org_perm(user)
    THEN [code |-> 403, status |-> "failure", description |-> NO_PERMISSION,
          flow |-> fl, revisions |-> revs]
    ELSE LET r == save_revision(fl, revs, user, body)
         IN  IF r.raised = ""
             THEN [code |-> 200, status |-> "success", description |-> <<>>,
                   flow |-> r.flow, revisions |-> r.revisions]
             ELSE IF failure_raises(r) # ""
             THEN [code |-> 500, status |-> "uncaught",
                   description |-> <<failure_raises(r)>>,
                   flow |-> fl, revisions |-> revs]
             ELSE [code |-> 400, status |-> "failure",
                   description |-> failure_description(r),
                   flow |-> fl, revisions |-> revs]

\* Revisions.post: the response, and the flow and its revisions afterwards.
\* An exception that leaves the view is the response "uncaught".
Revisions_post(fl, revs, user, body) ==
    IF ~has_org_perm(user)
    THEN [code |-> 403, status |-> "failure", description |-> NO_PERMISSION,
          flow |-> fl, revisions |-> revs]
    ELSE IF ~body.json
    THEN [code |-> 500, status |-> "uncaught", description |-> <<"JSONDecodeError">>,
          flow |-> fl, revisions |-> revs]
    ELSE LET r == save_revision(fl, revs, user, body)
         IN  IF r.raised = ""
             THEN [code |-> 200, status |-> "success", description |-> <<>>,
                   flow |-> r.flow, revisions |-> r.revisions]
             ELSE IF failure_raises(r) # ""
             THEN [code |-> 500, status |-> "uncaught",
                   description |-> <<failure_raises(r)>>,
                   flow |-> fl, revisions |-> revs]
             ELSE [code |-> 400, status |-> "failure",
                   description |-> failure_description(r),
                   flow |-> fl, revisions |-> revs]

\* POST of a definition by the editor
RevisionsPost ==
    /\ \E user \in Users, body \in Bodies :
        \E r \in {Revisions_post(flow_obj, revisions, user, body)} :
            /\ Len(r.revisions) <= MaxRevisions
            /\ flow_obj' = r.flow
            /\ revisions' = r.revisions
            /\ reply' = [code |-> r.code, status |-> r.status,
                         description |-> r.description, results |-> <<>>]
    /\ UNCHANGED <<mailroom, not_rvars>>

\* GET of the list of revisions
RevisionsGet ==
    /\ \E r \in {Revisions_get(revisions)} :
        reply' = IF r.raised
                 THEN [code |-> 500, status |-> "uncaught",
                       description |-> <<"Exception">>, results |-> <<>>]
                 ELSE [code |-> 200, status |-> "results",
                       description |-> <<>>, results |-> r.results]
    /\ UNCHANGED <<flow_obj, revisions, mailroom, not_rvars>>

\* a save made by the old editor, before the flow had a revision of the
\* new engine
LegacyRevisionSaved ==
    /\ \E user \in {u \in Users : has_org_perm(u)}, legacy \in LegacyRevisions :
        /\ Len(revisions) < MaxRevisions - 1
        /\ \A i \in 1..Len(revisions) :
              VersionLess(revisions[i].spec_version, INITIAL_GOFLOW_VERSION)
        /\ revisions' = Append(revisions,
                            [spec_version |-> legacy.spec_version,
                             created_by |-> user, check |-> legacy.check])
        /\ flow_obj' = [flow_obj EXCEPT !.saved_by = user]
    /\ UNCHANGED <<reply, mailroom, not_rvars>>

----------------------------------------------------------------------------
(* The calls of the engine: Revisions.get of one revision,                 *)
(* ChangeLanguage.form_valid and Simulate.post                             *)

\* a call of the mailroom client: its result, or the exception it raises
mailroom_call(mr) == IF mr = "up" THEN "" ELSE "MailroomException"

\* a response of the view, the flow and its revisions staying as they are
Response(code, status, description) ==
    [code |-> code, status |-> status, description |-> description]

\* Revisions.get with a revision id: the revision is fetched and migrated,
\* and the engine inspects the definition
Revisions_get_one(revs, revision_id, mr) ==
    IF revision_id \notin 1..Len(revs)
    THEN Response(500, "uncaught", <<"FlowRevision.DoesNotExist">>)
    ELSE IF mailroom_call(mr) # ""
    THEN Response(500, "uncaught", <<mailroom_call(mr)>>)
    ELSE Response(200, "definition", <<>>)

\* the language codes of the org, and the languages posted
OrgLanguages == {"eng", "fra"}
PostedLanguages == {"", "eng", "kin"}

\* ChangeLanguage.Form: language is required and has to be one of the org's
ChangeLanguage_Form_errors(language) ==
    IF language = "" THEN {"This field is required"}
    ELSE IF language \notin OrgLanguages THEN {"Not a valid language."}
    ELSE {}

\* ChangeLanguage POST: for a valid form the engine changes the language of
\* the definition, which is saved as a new revision
ChangeLanguage_post(fl, revs, user, language, mr) ==
    IF ChangeLanguage_Form_errors(language) # {}
    THEN [code |-> 200, status |-> "form errors", description |-> <<>>,
          flow |-> fl, revisions |-> revs]
    ELSE IF mailroom_call(mr) # ""
    THEN [code |-> 500, status |-> "uncaught", description |-> <<mailroom_call(mr)>>,
          flow |-> fl, revisions |-> revs]
    ELSE LET r == save_revision(fl, revs, user,
                      [json |-> TRUE, spec_version |-> fl.version_number,
                       engine |-> "ok"])
         IN  IF r.raised # ""
             THEN [code |-> 500, status |-> "uncaught", description |-> <<r.raised>>,
                   flow |-> fl, revisions |-> revs]
             ELSE [code |-> 302, status |-> "redirect", description |-> <<>>,
                   flow |-> r.flow, revisions |-> r.revisions]

\* what is posted to the simulator: a body that is not JSON, or an object
\* with any of the four keys
SimulateKeys == {"flow", "trigger", "resume", "session"}
SimulateBodies == [json : BOOLEAN, keys : SUBSET SimulateKeys]

\* Simulate.post
Simulate_post(body, mr) ==
    IF ~body.json THEN Response(400, "error", <<"Error parsing JSON">>)
    ELSE IF mr = "unconfigured"
    THEN Response(500, "error", <<"mailroom not configured, cannot simulate">>)
    ELSE IF "trigger" \in body.keys
    THEN IF mailroom_call(mr) = "" THEN Response(200, "session", <<>>)
         ELSE Response(500, "error", <<"mailroom error">>)
    ELSE IF "resume" \in body.keys
    THEN IF "session" \notin body.keys
         THEN Response(500, "uncaught", <<"KeyError">>)
         ELSE IF mailroom_call(mr) = "" THEN Response(200, "session", <<>>)
         ELSE Response(500, "error", <<"mailroom error">>)
    ELSE Response(500, "uncaught", <<"view returned None">>)

\* GET of one revision
RevisionsGetOne ==
    /\ \E revision_id \in 1..MaxRevisions :
        \E r \in {Revisions_get_one(revisions, revision_id, mailroom)} :
            reply' = [code |-> r.code, status |-> r.status,
                      description |-> r.description, results |-> <<revision_id>>]
    /\ UNCHANGED <<flow_obj, revisions, mailroom, not_rvars>>

\* POST of a language to ChangeLanguage
ChangeLanguagePost ==
    /\ \E user \in {u \in Users : has_org_perm(u)}, language \in PostedLanguages :
        \E r \in {ChangeLanguage_post(flow_obj, revisions, user, language, mailroom)} :
            /\ Len(r.revisions) <= MaxRevisions
            /\ flow_obj' = r.flow
            /\ revisions' = r.revisions
            /\ reply' = [code |-> r.code, status |-> r.status,
                         description |-> r.description, results |-> <<>>]
    /\ UNCHANGED <<mailroom, not_rvars>>

\* POST to the simulator
SimulatePost ==
    /\ \E body \in SimulateBodies :
        \E r \in {Simulate_post(body, mailroom)} :
            reply' = [code |-> r.code, status |-> r.status,
                      description |-> r.description, results |-> <<>>]
    /\ UNCHANGED <<flow_obj, revisions, mailroom, not_rvars>>

\* the engine goes down or comes back, or the deployment has no MAILROOM_URL
MailroomChanges ==
    /\ \E mr \in {"up", "down", "unconfigured"} :
        /\ mr # mailroom
        /\ mailroom' = mr
    /\ UNCHANGED <<flow_obj, revisions, reply, not_rvars>>

InitRevisions ==
    /\ flow_obj = [version_number |-> INITIAL_GOFLOW_VERSION, saved_by |-> "editor1"]
    /\ revisions = <<>>
    /\ mailroom = "up"
    /\ reply = [code |-> 0, status |-> "no request", description |-> <<>>,
                results |-> <<>>]

----------------------------------------------------------------------------
(* FlowCRUDL.Delete                                                        *)

\* the flows of the org
DependencyFlows == 1..MaxDependencyFlows

\* Flow.objects.filter(org=flow.org, flow_dependencies__in=[flow]): the flows
\* that depend on the flow
dependents(deps, flow) == {f \in DependencyFlows : <<f, flow>> \in deps}

\* flow.release()
release(active, flow) == [active EXCEPT ![flow] = FALSE]

\* Delete.post: an inactive flow is not found; a flow with dependents is not
\* released and the user is sent back to its editor
Delete_post(active, deps, flow) ==
    IF ~active[flow]
    THEN [code |-> 404, url |-> "", flow |-> flow, context |-> {},
          is_active |-> active]
    ELSE IF Cardinality(dependents(deps, flow)) # 0
    THEN [code |-> 302, url |-> "flows.flow_editor", flow |-> flow, context |-> {},
          is_active |-> active]
    ELSE [code |-> 200, url |-> "flows.flow_list", flow |-> flow, context |-> {},
          is_active |-> release(active, flow)]

\* POST to Delete
DeletePost ==
    /\ \E flow \in DependencyFlows :
        \E r \in {Delete_post(flow_is_active, flow_dependencies, flow)} :
            /\ flow_is_active' = r.is_active
            /\ deleted' = [code |-> r.code, url |-> r.url, flow |-> r.flow,
                           context |-> r.context]
    /\ UNCHANGED <<flow_dependencies, not_dvars>>

\* a revision of an active flow starts to refer to another flow
DependencyAdded ==
    /\ \E f \in DependencyFlows, g \in DependencyFlows :
        /\ f # g
        /\ flow_is_active[f]
        /\ flow_is_active[g]
        /\ <<f, g>> \notin flow_dependencies
        /\ flow_dependencies' = flow_dependencies \cup {<<f, g>>}
    /\ UNCHANGED <<flow_is_active, deleted, not_dvars>>

\* a revision of an active flow no longer refers to another flow
DependencyRemoved ==
    /\ \E d \in flow_dependencies :
        /\ flow_is_active[d[1]]
        /\ flow_dependencies' = flow_dependencies \ {d}
    /\ UNCHANGED <<flow_is_active, deleted, not_dvars>>

InitDelete ==
    /\ flow_is_active = [f \in DependencyFlows |-> TRUE]
    /\ flow_dependencies = {}
    /\ deleted = [code |-> 0, url |-> "", flow |-> 0, context |-> {}]

----------------------------------------------------------------------------
(* FlowCRUDL.ImportTranslation                                             *)

\* the language codes there are, and the base language of the flow
LanguageCodes == {"eng", "fra", "kin"}
base_language == "eng"

\* the uploads: no file, a file that is not a PO file, or a PO file with the
\* language it declares ("" when it declares none)
NoFile == [valid |-> FALSE, language_code |-> "no file"]
PoUploads ==
    {NoFile, [valid |-> FALSE, language_code |-> ""]}
        \cup [valid : {TRUE}, language_code : LanguageCodes \cup {""}]

\* the requests: the po parameter of the URL (0 when there is none), the
\* uploaded file and the posted language
TranslationRequests ==
    [po : 0..(MaxPoFiles + 1), po_file : PoUploads, language : LanguageCodes \cup {""}]

\* gettext.po_get_info(data.read().decode())
po_get_info(data) ==
    IF data.valid THEN [raised |-> FALSE, language_code |-> data.language_code]
    ELSE [raised |-> TRUE, language_code |-> ""]

\* a clean_po_file that does not look at the org's languages
clean_po_file_base_only(languages, data) ==
    IF data = NoFile THEN {"This field is required."}
    ELSE LET po_info == po_get_info(data)
         IN  IF po_info.raised THEN {"File doesn't appear to be a valid PO file."}
             ELSE IF po_info.language_code # ""
                     /\ po_info.language_code = base_language
             THEN {"Contains translations in the base language of this flow."}
             ELSE {}

\* UploadForm: po_file is required, and clean_po_file
clean_po_file(languages, data) ==
    IF data = NoFile THEN {"This field is required."}
    ELSE LET po_info == po_get_info(data)
         IN  IF po_info.raised THEN {"File doesn't appear to be a valid PO file."}
             ELSE IF po_info.language_code # ""
                     /\ po_info.language_code = base_language
             THEN {"Contains translations in the base language of this flow."}
             ELSE IF po_info.language_code # ""
                     /\ po_info.language_code \notin languages
             THEN {"Contains translations in a language which is not supported."}
             ELSE {}

\* ConfirmForm choices that keep the base language
ConfirmForm_choices_all(languages) == languages

\* ConfirmForm.__init__: the choices of language
ConfirmForm_choices(languages) == languages \ {base_language}

\* ConfirmForm: language is required and has to be one of the choices
ConfirmForm_errors(languages, language) ==
    IF language = "" THEN {"This field is required."}
    ELSE IF language \notin ConfirmForm_choices(languages)
    THEN {"Select a valid choice."}
    ELSE {}

\* gettext.po_save and gettext.po_load: the stored files, by uuid
po_save(files, po_file) == Append(files, po_file.language_code)
po_load(files, po_uuid) == IF po_uuid \in 1..Len(files) THEN "" ELSE "raised"

\* ImportTranslation POST: get_form_class, the form's validation and
\* form_valid
ImportTranslation_post(languages, files, imports, req) ==
    IF req.po = 0
    THEN IF clean_po_file(languages, req.po_file) # {}
         THEN [step |-> "upload", code |-> 200,
               errors |-> clean_po_file(languages, req.po_file),
               po |-> 0, po_files |-> files, imported |-> imports]
         ELSE [step |-> "upload", code |-> 302, errors |-> {},
               po |-> Len(files) + 1, po_files |-> po_save(files, req.po_file),
               imported |-> imports]
    ELSE IF ConfirmForm_errors(languages, req.language) # {}
         THEN [step |-> "confirm", code |-> 200,
               errors |-> ConfirmForm_errors(languages, req.language),
               po |-> req.po, po_files |-> files, imported |-> imports]
         ELSE IF po_load(files, req.po) # ""
         THEN [step |-> "confirm", code |-> 500, errors |-> {"uncaught"},
               po |-> req.po, po_files |-> files, imported |-> imports]
         ELSE [step |-> "confirm", code |-> 302, errors |-> {},
               po |-> req.po, po_files |-> files,
               imported |-> Append(imports, req.language)]

\* the effect of a request on the stored files and the imported translations
ImportTranslationRequest(req) ==
    \E r \in {ImportTranslation_post(org_languages, po_files, imported, req)} :
        /\ Len(r.po_files) <= MaxPoFiles
        /\ Len(r.imported) <= MaxImports
        /\ po_files' = r.po_files
        /\ imported' = r.imported
        /\ translation' = [step |-> r.step, code |-> r.code, errors |-> r.errors,
                           language |-> req.language,
                           declared |-> req.po_file.language_code]

\* POST of a file to ImportTranslation, without the po parameter
ImportTranslationUpload ==
    /\ \E req \in {q \in TranslationRequests :
                     q.po = 0 /\ q.language = ""} :
        ImportTranslationRequest(req)
    /\ UNCHANGED <<org_languages, not_tvars>>

\* POST of a language to ImportTranslation, with the po parameter
ImportTranslationConfirm ==
    /\ \E req \in {q \in TranslationRequests :
                     q.po # 0 /\ q.po_file = NoFile} :
        ImportTranslationRequest(req)
    /\ UNCHANGED <<org_languages, not_tvars>>

\* a language is added to the org or taken from it
OrgLanguagesChange ==
    /\ \E code \in LanguageCodes :
        org_languages' = IF code \in org_languages
                         THEN org_languages \ {code}
                         ELSE org_languages \cup {code}
    /\ UNCHANGED <<po_files, imported, translation, not_tvars>>

InitTranslation ==
    /\ org_languages = {"eng", "fra"}
    /\ po_files = <<>>
    /\ imported = <<>>
    /\ translation = [step |-> "none", code |-> 0, errors |-> {},
                      language |-> "", declared |-> ""]

----------------------------------------------------------------------------
(* FlowLabelForm and FlowLabelCRUDL                                        *)

\* the names posted, and the parents posted (0 when none is chosen)
LabelNames == {<<>>, <<"a">>, <<"b">>, <<"A">>, <<" ", "a">>}
LabelParents == 0..MaxLabels

\* FlowLabelForm.__init__: the labels that can be chosen as parent are the
\* labels without a parent, except the label itself (0 for a new label)
parent_queryset(rows, label) ==
    {i \in 1..Len(rows) : rows[i].parent = 0 /\ i # label}

\* FlowLabelForm.clean_name, after the required CharField
clean_name(rows, instance, posted) ==
    LET name == strip(CharField_to_python(posted))
    IN  IF CharField_to_python(posted) = <<>>
        THEN [errors |-> {"This field is required."}, name |-> name]
        ELSE IF \E i \in 1..Len(rows) : rows[i].name = name /\ i # instance
        THEN [errors |-> {"Name already used"}, name |-> name]
        ELSE [errors |-> {}, name |-> name]

\* ModelChoiceField.clean of parent
clean_parent(rows, label, parent) ==
    IF parent # 0 /\ parent \notin parent_queryset(rows, label)
    THEN {"Select a valid choice."}
    ELSE {}

\* an Update form that always has the parent field
derive_fields_all(rows, label) == {"name", "parent"}

\* FlowLabelCRUDL.Update.derive_fields: a label that is a parent has no
\* parent field
derive_fields(rows, label) ==
    IF \E i \in 1..Len(rows) : rows[i].parent = label
    THEN {"name"}
    ELSE {"name", "parent"}

\* FlowLabelCRUDL.Create: the form, then the new row
FlowLabel_Create(rows, posted, parent) ==
    LET n == clean_name(rows, 0, posted)
        errors == n.errors \cup clean_parent(rows, 0, parent)
    IN  [errors |-> errors,
         labels |-> IF errors = {}
                    THEN Append(rows, [name |-> n.name, parent |-> parent])
                    ELSE rows]

\* FlowLabelCRUDL.Update: the form with the derived fields, then the row
FlowLabel_Update(rows, label, posted, parent) ==
    LET fields == derive_fields(rows, label)
        n == clean_name(rows, label, posted)
        errors == n.errors \cup
                  IF "parent" \in fields THEN clean_parent(rows, label, parent) ELSE {}
    IN  [errors |-> errors,
         labels |-> IF errors = {}
                    THEN [rows EXCEPT ![label] =
                             [name |-> n.name,
                              parent |-> IF "parent" \in fields THEN parent
                                         ELSE rows[label].parent]]
                    ELSE rows]

\* POST to FlowLabelCRUDL.Create
FlowLabelCreate ==
    /\ \E posted \in LabelNames, parent \in LabelParents :
        \E r \in {FlowLabel_Create(labels, posted, parent)} :
            /\ Len(r.labels) <= MaxLabels
            /\ labels' = r.labels
            /\ label_reply' = [view |-> "create", label |-> Len(r.labels),
                               parent |-> parent, errors |-> r.errors]
    /\ UNCHANGED not_lvars

\* POST to FlowLabelCRUDL.Update
FlowLabelUpdate ==
    /\ \E label \in 1..Len(labels), posted \in LabelNames, parent \in LabelParents :
        \E r \in {FlowLabel_Update(labels, label, posted, parent)} :
            /\ labels' = r.labels
            /\ label_reply' = [view |-> "update", label |-> label,
                               parent |-> parent, errors |-> r.errors]
    /\ UNCHANGED not_lvars

InitLabels ==
    /\ labels = <<>>
    /\ label_reply = [view |-> "none", label |-> 0, parent |-> 0, errors |-> {}]

----------------------------------------------------------------------------
(* FlowCRUDL.RunTable                                                      *)

\* the values of FlowRun.modified_on
ModifiedOn == 1..MaxModifiedOn

\* no cursor: the request has no modified_on parameter
NoCursor == [modified_on |-> 0, id |-> 0]

\* flow.runs.all(), filtered by responded and by the cursor:
\* runs.filter(modified_on__lte=modified_on).exclude(id=id)
RunTable_filter(rs, responded, cursor) ==
    {i \in 1..Len(rs) :
        /\ responded => rs[i].responded
        /\ cursor.modified_on # 0 =>
              /\ rs[i].modified_on <= cursor.modified_on
              /\ i # cursor.id}

\* runs.order_by("-modified_on"): the orders the database can return the
\* rows in, the order of rows with the same modified_on being its choice
order_by_modified_on(rs, ids) ==
    {s \in [1..Cardinality(ids) -> ids] :
        /\ \A i, j \in 1..Cardinality(ids) : i # j => s[i] # s[j]
        /\ \A i, j \in 1..Cardinality(ids) :
              i < j => rs[s[i]].modified_on >= rs[s[j]].modified_on}

\* the first n elements
Slice(s, n) == SubSeq(s, 1, IF Len(s) < n THEN Len(s) ELSE n)

\* RunTable.get_context_data, for the order the database returned
RunTable_get_context_data(ordered) ==
    LET fetched == Slice(ordered, paginate_by + 1)
    IN  [more |-> Len(fetched) > paginate_by,
         runs |-> Slice(fetched, paginate_by)]

\* the runs a paging with this filter has to show
Matching(rs, responded) == RunTable_filter(rs, responded, NoCursor)

\* the cursor the next request passes: the last run shown
next_cursor(rs, page) ==
    IF page = <<>> THEN NoCursor
    ELSE [modified_on |-> rs[page[Len(page)]].modified_on, id |-> page[Len(page)]]

\* a run of the flow is saved by the engine, before the table is opened
RunSaved ==
    /\ ~paging.started
    /\ Len(flow_runs) < MaxRuns
    /\ \E modified_on \in ModifiedOn, responded \in BOOLEAN :
        flow_runs' = Append(flow_runs,
                            [modified_on |-> modified_on, responded |-> responded])
    /\ UNCHANGED <<paging, not_pvars>>

\* GET of RunTable: the first page, or the page after the last run shown
RunTableGet ==
    /\ ~paging.started \/ paging.more
    /\ \E responded \in {b \in BOOLEAN : paging.started => b = paging.responded} :
        \E ordered \in order_by_modified_on(flow_runs,
                           RunTable_filter(flow_runs, responded, paging.cursor)) :
            \E context \in {RunTable_get_context_data(ordered)} :
                paging' = [started |-> TRUE, responded |-> responded,
                           more |-> context.more,
                           cursor |-> next_cursor(flow_runs, context.runs),
                           shown |-> paging.shown \cup
                                     {context.runs[i] : i \in 1..Len(context.runs)}]
    /\ UNCHANGED <<flow_runs, not_pvars>>

InitRunTable ==
    /\ flow_runs = <<>>
    /\ paging = [started |-> FALSE, responded |-> FALSE, more |-> FALSE,
                 cursor |-> NoCursor, shown |-> {}]

----------------------------------------------------------------------------
(* Specifications                                                          *)

Init == InitKeywords /\ InitBroadcast /\ InitExport /\ InitActivity /\ InitRevisions /\ InitDelete /\ InitTranslation /\ InitLabels /\ InitRunTable

NextKeywords == FlowCreate \/ FlowUpdate

\* the keyword triggers of the flows under Create and Update requests
SpecKeywords == Init /\ [][NextKeywords]_vars

NextTriggerGroups == FlowCreate \/ FlowUpdate \/ TriggerGroupsChange

\* the same, with triggers that are restricted to contact groups
SpecTriggerGroups == Init /\ [][NextTriggerGroups]_vars

NextBroadcast == BroadcastPost \/ BroadcastSave \/ FlowStartFinishes \/ OrgChanges

\* Broadcast requests, interleaved with each other and with the engine
SpecBroadcast == Init /\ [][NextBroadcast]_vars

NextExport ==
    ExportResultsPost \/ UpdatePost \/ TransactionCommit \/ TransactionRollback
        \/ ExportFinishes

\* ExportResults and Update requests, their transactions and the workers
SpecExport == Init /\ [][NextExport]_vars

NextActivity == PathCountAdded \/ RunCountAdded \/ ActivityChartGet

\* the counts of a flow as the engine records them, and its chart
SpecActivity == Init /\ [][NextActivity]_vars

NextRevisions ==
    RevisionsPost \/ RevisionsGet \/ LegacyRevisionSaved \/ RevisionsGetOne
        \/ ChangeLanguagePost \/ SimulatePost \/ MailroomChanges

\* the editor saving and listing the revisions of a flow
SpecRevisions == Init /\ [][NextRevisions]_vars

NextDelete == DeletePost \/ DependencyAdded \/ DependencyRemoved

\* the flows of an org and their dependencies under Delete requests
SpecDelete == Init /\ [][NextDelete]_vars

NextTranslation ==
    ImportTranslationUpload \/ ImportTranslationConfirm \/ OrgLanguagesChange

\* the PO files and the imported translations of a flow
SpecTranslation == Init /\ [][NextTranslation]_vars

NextLabels == FlowLabelCreate \/ FlowLabelUpdate

\* the flow labels of an org under Create and Update requests
SpecLabels == Init /\ [][NextLabels]_vars

NextRunTable == RunSaved \/ RunTableGet

\* the runs of a flow, and one paging through them
SpecRunTable == Init /\ [][NextRunTable]_vars

\* the same, the page after a page with more being requested eventually
SpecRunTableFair == SpecRunTable /\ WF_vars(RunTableGet)

----------------------------------------------------------------------------
(* Keyword triggers: properties                                            *)

\* a raw keyword lower-cased and stripped
Normalized == [k \in RawKeywords |-> strip(lower(k))]

\* the keyword set a valid submission stands for
CleanedSet(value) == {Normalized[value[i]] : i \in 1..Len(value)} \ {<<>>}

\* the raw keywords that do not match ^\w+$ or are too long, once normalized
NonMatching ==
    {k \in RawKeywords :
        ~regex_match_word(Normalized[k]) \/ Len(Normalized[k]) > KEYWORD_MAX_LEN}

\* those of them that are not blank
IllFormed == {k \in NonMatching : Normalized[k] # <<>>}

\* the submissions holding an ill-formed keyword
IllFormedSubmissions ==
    {v \in Submissions : \E i \in 1..Len(v) : v[i] \in IllFormed}

\* keywords of the non-archived, group-less keyword triggers of flow f
ActiveKeywords(trigs, f) ==
    {trigs[i].keyword : i \in {j \in 1..Len(trigs) :
        /\ trigs[j].flow = f
        /\ trigs[j].trigger_type = TYPE_KEYWORD
        /\ trigs[j].groups = {}
        /\ ~trigs[j].is_archived}}

\* rows of the archived, group-less keyword triggers of flow f with keyword k
ArchivedRows(trigs, f, k) ==
    {i \in 1..Len(trigs) :
        /\ trigs[i].flow = f
        /\ trigs[i].keyword = k
        /\ trigs[i].trigger_type = TYPE_KEYWORD
        /\ trigs[i].groups = {}
        /\ trigs[i].is_archived}

\* rows of flow f with keyword k
RowsOf(trigs, f, k) ==
    {i \in 1..Len(trigs) : trigs[i].flow = f /\ trigs[i].keyword = k}

\* the flows whose update form has the keyword_triggers field
KeywordFlows == {f \in 1..Len(flows) : flows[f] # "S"}

Reverse(seq) == [i \in 1..Len(seq) |-> seq[Len(seq) + 1 - i]]

\* C1: reconciliation is idempotent.  In every reachable trigger state, for
\* every flow and every submission that Update accepts, submitting the same
\* keywords again to the result is accepted and changes no trigger row.
C1_ReconcileIdempotent ==
    \A f \in KeywordFlows, value \in Submissions :
        \A r1 \in {UpdateView(triggers, f, value)} :
            r1.error = "" =>
                \A r2 \in {UpdateView(r1.triggers, f, value)} :
                    r2.error = "" /\ r2.triggers = r1.triggers

\* an update has archived keyword a of a flow and left it with keyword b
C1_Witness ==
    /\ last = "update"
    /\ \E f \in KeywordFlows :
        /\ ArchivedRows(triggers, f, <<"a">>) # {}
        /\ ActiveKeywords(triggers, f) = {<<"b">>}

\* C2: after an accepted Update whose cleaned keyword set is B (possibly
\* empty), the flow's non-archived, group-less keyword triggers carry exactly
\* the keywords of B.
C2_ActiveSetIsSubmittedSet ==
    \A f \in KeywordFlows, value \in Submissions :
        \A r \in {UpdateView(triggers, f, value)} :
            r.error = "" => ActiveKeywords(r.triggers, f) = CleanedSet(value)

\* an update has emptied the keyword set of a flow that had a trigger
C2_Witness ==
    /\ last = "update"
    /\ \E f \in KeywordFlows :
        /\ ActiveKeywords(triggers, f) = {}
        /\ \E i \in 1..Len(triggers) : triggers[i].flow = f /\ triggers[i].is_archived

\* C3: at most one active, non-archived, group-less keyword trigger per
\* normalized keyword in the org.
C3_OneTriggerPerKeyword ==
    \A i, j \in 1..Len(triggers) :
        (/\ i # j
         /\ triggers[i].trigger_type = TYPE_KEYWORD /\ triggers[j].trigger_type = TYPE_KEYWORD
         /\ triggers[i].is_active /\ triggers[j].is_active
         /\ ~triggers[i].is_archived /\ ~triggers[j].is_archived
         /\ triggers[i].groups = {} /\ triggers[j].groups = {})
        => lower(triggers[i].keyword) # lower(triggers[j].keyword)

\* some row of another flow than instance holds keyword k, active and not archived
UsedByAnotherFlow(trigs, instance, k) ==
    \E j \in 1..Len(trigs) :
        /\ trigs[j].flow # instance
        /\ trigs[j].is_active /\ ~trigs[j].is_archived
        /\ lower(trigs[j].keyword) = Normalized[k]

\* C4 as stated: a keyword the flow already holds is rejected as a duplicate
\* when it is submitted again for the same flow.
C4_SameFlowResubmissionRejected ==
    \A f \in KeywordFlows, k \in RawKeywords :
        Normalized[k] \in ActiveKeywords(triggers, f) =>
            clean_keyword_triggers(triggers, f, <<k>>).error = "duplicates"

\* C4 amended: clean_keyword_triggers raises the duplicate error exactly when
\* no keyword is ill-formed and some submitted keyword is held, active and not
\* archived, by a trigger of another flow; the flow's own triggers never make
\* its submission a duplicate.
C4_OtherFlowRejected ==
    \A instance \in 0..Len(flows), value \in Submissions :
        clean_keyword_triggers(triggers, instance, value).error = "duplicates"
        <=> /\ value \notin IllFormedSubmissions
            /\ \E i \in 1..Len(value) :
                /\ Normalized[value[i]] # <<>>
                /\ UsedByAnotherFlow(triggers, instance, value[i])

\* an update of one flow was rejected for a keyword another flow holds, while
\* the flows' own keywords stay acceptable
C4_Witness ==
    /\ last = "duplicates"
    /\ \E f \in KeywordFlows : ActiveKeywords(triggers, f) # {}

\* C5: Update deletes no trigger.  Every row stays at its place with the same
\* flow, keyword, type and groups; a non-archived group-less row of the flow
\* whose keyword is not submitted becomes archived.
C5_RemovedAreArchivedNotDeleted ==
    \A f \in KeywordFlows, value \in Submissions :
        \A r \in {UpdateView(triggers, f, value)} :
            /\ Len(r.triggers) >= Len(triggers)
            /\ \A i \in 1..Len(triggers) :
                /\ r.triggers[i] = [triggers[i] EXCEPT !.is_archived = r.triggers[i].is_archived]
                /\ (/\ r.error = ""
                    /\ triggers[i].flow = f
                    /\ triggers[i].groups = {}
                    /\ ~triggers[i].is_archived
                    /\ triggers[i].keyword \notin CleanedSet(value))
                   => r.triggers[i].is_archived

\* an update has archived a trigger and the table still holds every row
C5_Witness ==
    /\ last = "update"
    /\ Len(triggers) = MaxTriggers
    /\ \E i \in 1..Len(triggers) : triggers[i].is_archived

\* C6: for each added keyword, an archived group-less keyword trigger of the
\* flow with that keyword is reactivated and no row is created; without one,
\* exactly one row is created, a non-archived group-less keyword trigger.
C6_ReactivateOrCreateOne ==
    \A f \in KeywordFlows, value \in Submissions :
        \A r \in {UpdateView(triggers, f, value)} :
            r.error = "" =>
                \A k \in CleanedSet(value) \ ActiveKeywords(triggers, f) :
                    IF ArchivedRows(triggers, f, k) # {}
                    THEN /\ RowsOf(r.triggers, f, k) = RowsOf(triggers, f, k)
                         /\ \A i \in ArchivedRows(triggers, f, k) : ~r.triggers[i].is_archived
                    ELSE /\ Cardinality(RowsOf(r.triggers, f, k))
                                = Cardinality(RowsOf(triggers, f, k)) + 1
                         /\ \E i \in RowsOf(r.triggers, f, k) \ RowsOf(triggers, f, k) :
                                r.triggers[i] = NewTrigger(f, k)

\* after an update, a flow has keyword a archived and no row for keyword b:
\* submitting both reactivates the one and creates the other
C6_Witness ==
    /\ last = "update"
    /\ \E f \in KeywordFlows :
        /\ ArchivedRows(triggers, f, <<"a">>) # {}
        /\ RowsOf(triggers, f, <<"b">>) = {}
        /\ ActiveKeywords(triggers, f) = {}
        /\ UpdateView(triggers, f, << <<" ", "B", " ">>, <<"a">> >>).error = ""

\* C7: the result of an Update does not depend on the order of the submitted
\* keywords, and the rows it creates are in ascending keyword order.
C7_OrderIndependent ==
    \A f \in KeywordFlows, value \in Submissions :
        \A r \in {UpdateView(triggers, f, value)} :
            /\ r = UpdateView(triggers, f, Reverse(value))
            /\ \A i, j \in (Len(triggers) + 1)..Len(r.triggers) :
                i < j => StrLess(r.triggers[i].keyword, r.triggers[j].keyword)

\* an update has created the triggers a and b of one flow, in that order
C7_Witness ==
    /\ last = "update"
    /\ Len(triggers) = 2
    /\ triggers[1] = NewTrigger(triggers[2].flow, <<"a">>)
    /\ triggers[2].keyword = <<"b">>
    /\ ~triggers[2].is_archived

\* C8 as stated: a keyword that does not match ^\w+$ after lower-casing and
\* stripping, or is too long, makes the submission fail with the format error.
C8_NonMatchingRejected ==
    \A instance \in 0..Len(flows), value \in Submissions :
        (\E i \in 1..Len(value) : value[i] \in NonMatching)
        => clean_keyword_triggers(triggers, instance, value).error = "wrong_format"

\* C8 amended: a keyword that is not blank after lower-casing and stripping and
\* does not match ^\w+$ or is too long makes clean_keyword_triggers raise the
\* format error, whatever duplicates the submission holds, and neither Create
\* nor Update changes the Trigger table.
C8_IllFormedRejected ==
    \A value \in IllFormedSubmissions :
        /\ \A instance \in 0..Len(flows) :
            clean_keyword_triggers(triggers, instance, value).error = "wrong_format"
        /\ \A flow_type \in FlowTypes :
            CreateView(triggers, Len(flows) + 1, flow_type, value)
                = [error |-> "wrong_format", triggers |-> triggers]
        /\ \A f \in KeywordFlows :
            UpdateView(triggers, f, value) = [error |-> "wrong_format", triggers |-> triggers]

\* a submission was rejected for its format while a keyword another flow
\* holds could have been submitted with it
C8_Witness ==
    /\ last = "wrong_format"
    /\ \E f \in KeywordFlows, k \in RawKeywords :
        /\ UsedByAnotherFlow(triggers, f, k)
        /\ UpdateView(triggers, f, <<k, <<"a", "-">> >>).error = "wrong_format"

----------------------------------------------------------------------------
(* FlowCRUDL.Broadcast: properties                                         *)

ALREADY_STARTING == "This flow is already being started"

\* C9: for every flow with a FlowStart that is not finished, every Broadcast
\* submission (any recipients mode, omnibox, contact query and flags, the
\* field checks failing or not) is invalid with the "already being started"
\* error, and nothing is handed to async_start.
C9_StartingFlowRejected ==
    \A flow \in BroadcastFlows :
        is_starting(starts, flow) =>
            \A data \in BroadcastData :
                \A r \in {BroadcastView(starts, org, flow, data)} :
                    /\ ALREADY_STARTING \in r.errors
                    /\ ~r.valid
                    /\ r.start_args = None

\* C9: a submission for a starting flow was answered with a field error and
\* the "already being started" error together, and no request of that flow
\* is on its way to save().
C9_Witness ==
    /\ response.flow \in BroadcastFlows
    /\ is_starting(starts, response.flow)
    /\ ALREADY_STARTING \in response.errors
    /\ response.errors \ {ALREADY_STARTING} # {}
    /\ validated[response.flow] = 0

\* C10: at any time a flow has at most one FlowStart that is not finished,
\* however the Broadcast requests for it interleave.
C10_AtMostOneUnfinishedStart ==
    \A flow \in BroadcastFlows : starts[flow][STATUS_PENDING] <= 1

SUSPENDED == "workspace is currently suspended"
FLAGGED == "workspace is currently flagged"

\* C11: while the org is suspended or flagged every Broadcast submission, for
\* any recipients, is invalid with a validation error of clean() (already
\* being started, else suspended, else flagged) and nothing is handed to
\* async_start.
C11_SuspendedOrFlaggedRejected ==
    (org.is_suspended \/ org.is_flagged) =>
        \A flow \in BroadcastFlows, data \in BroadcastData :
            \A r \in {BroadcastView(starts, org, flow, data)} :
                /\ ~r.valid
                /\ r.start_args = None
                /\ IF is_starting(starts, flow) THEN ALREADY_STARTING \in r.errors
                   ELSE IF org.is_suspended THEN SUSPENDED \in r.errors
                   ELSE FLAGGED \in r.errors

\* C11: the org is flagged and not suspended, and a submission for a flow that
\* is not starting was answered with the flagged error; no request of that
\* flow is on its way to save().
C11_Witness ==
    /\ org.is_flagged /\ ~org.is_suspended
    /\ response.flow \in BroadcastFlows
    /\ ~is_starting(starts, response.flow)
    /\ FLAGGED \in response.errors
    /\ validated[response.flow] = 0

\* C12: in query mode a blank contact query is answered with "Contact query
\* is required", a query the parser rejects with the parser's message, both
\* leaving the form invalid with nothing handed to async_start; a valid form
\* hands async_start the parser's normalized query.
C12_QueryParsedOrRejected ==
    \A flow \in BroadcastFlows :
        \A data \in {d \in BroadcastData : d.recipients_mode = "query"} :
            \A r \in {BroadcastView(starts, org, flow, data)},
               text \in {strip(data.contact_query)} :
                /\ text = <<>> =>
                      /\ "Contact query is required" \in r.errors
                      /\ ~r.valid /\ r.start_args = None
                /\ text # <<>> /\ ~parse_query(text).ok =>
                      /\ parse_query(text).message \in r.errors
                      /\ ~r.valid /\ r.start_args = None
                /\ r.valid =>
                      /\ parse_query(text).ok
                      /\ r.start_args.contact_query = parse_query(text).query
                      /\ r.start_args.groups = {} /\ r.start_args.contacts = {}

\* C12: a query-mode submission typed as " A" was valid and is on its way to
\* save() with the normalized query "a".
C12_Witness ==
    /\ response.flow \in BroadcastFlows
    /\ response.errors = {}
    /\ response.contact_query = <<"a">>
    /\ validated[response.flow] > 0

----------------------------------------------------------------------------
(* FlowCRUDL.ExportResults and the hand-off to the workers: properties     *)

\* C13: while the org has an unfinished export, every export request leaves
\* the table, the open transactions and the queue as they are, and one with a
\* valid form is told that an export is already in progress.
C13_ExportInProgressRefused ==
    get_recent_unfinished(export_tasks) # {} =>
        \A data \in ExportData :
            \A r \in {ExportResultsView(export_tasks, next_pk, celery, data)} :
                /\ ~r.created
                /\ r.txn.on_commit = <<>>
                /\ r.queue = celery
                /\ ExportForm_errors(data) = {} => r.message = {IN_PROGRESS}

\* C13: the one export of the org is unfinished, a request was answered with
\* the in-progress message, and no row or transaction came of it.
C13_Witness ==
    /\ message = {IN_PROGRESS}
    /\ get_recent_unfinished(export_tasks) = {1}
    /\ next_pk = 2
    /\ txns = <<>>
    /\ celery[export_flow_results_task(1)] = 1

\* C14: a request that was accepted holds its record and the one call of its
\* task in its transaction; the export task of a row was enqueued once if the
\* row is committed and never otherwise (open or rolled back); the
\* expirations task of a flow was enqueued once per committed Update of it.
C14_EnqueuedOncePerCommit ==
    /\ \A i \in 1..Len(txns) :
          /\ txns[i].view = "ExportResults" =>
                /\ txns[i].pk \in 1..(next_pk - 1)
                /\ txns[i].pk \notin DOMAIN export_tasks
                /\ txns[i].on_commit = <<export_flow_results_task(txns[i].pk)>>
          /\ txns[i].view = "Update" =>
                txns[i].on_commit = <<update_run_expirations_task(txns[i].pk)>>
    /\ \A pk \in 1..MaxExports :
          celery[export_flow_results_task(pk)] = IF pk \in DOMAIN export_tasks THEN 1 ELSE 0
    /\ \A pk \in FlowPks :
          celery[update_run_expirations_task(pk)] = flow_saves[pk]

\* C14: export 1 was rolled back and never enqueued, export 2 is committed and
\* enqueued once, and an Update of flow 1 is committed and enqueued once.
C14_Witness ==
    /\ next_pk = 3
    /\ DOMAIN export_tasks = {2}
    /\ txns = <<>>
    /\ celery[export_flow_results_task(1)] = 0
    /\ celery[export_flow_results_task(2)] = 1
    /\ flow_saves[1] = 1
    /\ celery[update_run_expirations_task(1)] = 1

\* C15: a form with more contact fields or more groups than allowed has
\* errors and creates nothing; with both selections within the limits the
\* form has neither of the two limit errors.
C15_SelectionLimits ==
    \A data \in ExportData :
        \A r \in {ExportResultsView(export_tasks, next_pk, celery, data)} :
            /\ (\/ Cardinality(data.contact_fields) > MAX_CONTACT_FIELDS_COLS
                \/ Cardinality(data.group_memberships) > MAX_GROUP_MEMBERSHIPS_COLS) =>
                  /\ ExportForm_errors(data) # {}
                  /\ ~r.created /\ r.txn.on_commit = <<>> /\ r.queue = celery
            /\ (/\ Cardinality(data.contact_fields) <= MAX_CONTACT_FIELDS_COLS
                /\ Cardinality(data.group_memberships) <= MAX_GROUP_MEMBERSHIPS_COLS) =>
                  ExportForm_errors(data) \cap {TOO_MANY_FIELDS, TOO_MANY_GROUPS} = {}

\* C15: a request with too many groups was answered with the groups error
\* while no export had ever been created.
C15_Witness ==
    /\ TOO_MANY_GROUPS \in message
    /\ next_pk = 1
    /\ txns = <<>>
    /\ export_tasks = <<>>

----------------------------------------------------------------------------
(* FlowCRUDL.ActivityChart: properties                                     *)

\* a span of time in days, as hours
Days(n) == n * 24

\* the span between the first and the last period of the counted paths
Span(pc) ==
    SetMax({r.period : r \in {q \in pc : q.waiting}})
        - SetMin({r.period : r \in {q \in pc : q.waiting}})

\* C16: whenever total_responses > 0 the histogram is hourly for a span under
\* 21 days, daily for a span from 21 days to under 500 days, and weekly for a
\* span of 500 days or more.
C16_BucketBySpan ==
    \A context \in {ActivityChart_get_context_data(path_counts, run_counts)} :
        context.total_responses > 0 =>
            /\ Span(path_counts) < Days(21) => context.bucket = "hour"
            /\ Days(21) <= Span(path_counts) /\ Span(path_counts) < Days(500) =>
                  context.bucket = "day"
            /\ Span(path_counts) >= Days(500) => context.bucket = "week"

\* C16: the chart of a flow whose counted paths span exactly 21 days was
\* drawn with daily buckets.
C16_Witness ==
    /\ \E r \in path_counts : r.waiting /\ r.count > 0
    /\ Span(path_counts) = Days(21)
    /\ chart.bucket = "day"

\* C17: in the chart's context active + completed + interrupted + expired is
\* total_runs, whatever rows the exit types have.
C17_StatesSumToTotal ==
    \A context \in {ActivityChart_get_context_data(path_counts, run_counts)} :
        context.active + context.completed + context.interrupted + context.expired
            = context.total_runs

\* C17: the chart was drawn for a flow with two kinds of row for the active
\* runs, a row of completed runs and no row of expired runs.
C17_Witness ==
    /\ run_counts[[exit_type |-> EXIT_TYPE_NONE, count |-> 1]] > 0
    /\ run_counts[[exit_type |-> EXIT_TYPE_NONE, count |-> -1]] > 0
    /\ run_counts[[exit_type |-> EXIT_TYPE_COMPLETED, count |-> 1]] > 0
    /\ run_counts[[exit_type |-> EXIT_TYPE_EXPIRED, count |-> 1]] = 0
    /\ chart.bucket # "no request"
    /\ chart.total_runs = 1

----------------------------------------------------------------------------
(* FlowCRUDL.Revisions: properties                                         *)

\* the definition was loaded at an older spec version than the flow has now
VersionConflict(body) == VersionLess(body.spec_version, flow_obj.version_number)

\* the responses to the definitions a permitted user can post
PermittedPosts ==
    {[user |-> user, body |-> body,
      r |-> Revisions_post(flow_obj, revisions, user, body)] :
        user \in {u \in Users : has_org_perm(u)}, body \in {b \in Bodies : b.json}}

\* C18: a save of a definition loaded at an older spec version than the
\* flow's is answered with status "failure", HTTP 400 and the "upgraded to
\* the latest version, please refresh" message, and no revision is created.
C18_VersionConflictRejected ==
    \A p \in PermittedPosts :
        VersionConflict(p.body) =>
            /\ p.r.code = 400 /\ p.r.status = "failure"
            /\ p.r.description = UPGRADED
            /\ p.r.revisions = revisions /\ p.r.flow = flow_obj

\* C18: the flow was saved at 13.1 and a later save was answered with the
\* "upgraded" failure.
C18_Witness ==
    /\ flow_obj.version_number = <<13, 1>>
    /\ reply.code = 400 /\ reply.status = "failure"
    /\ reply.description = UPGRADED

IsLegacy(revision) == VersionLess(revision.spec_version, INITIAL_GOFLOW_VERSION)

\* C20: the listing never raises; it holds, latest first, the revisions of
\* the new engine (not validated) and the legacy revisions whose migration
\* and validation succeed; a legacy revision that fails with ValueError or
\* with another exception is left out, the latter being logged.
C20_ListingNeverRaises ==
    \A r \in {Revisions_get(revisions)} :
        /\ ~r.raised
        /\ \A i \in 1..Len(revisions) :
              (\E j \in 1..Len(r.results) : r.results[j] = i)
                  <=> (~IsLegacy(revisions[i]) \/ revisions[i].check = "ok")
        /\ \A j \in 1..(Len(r.results) - 1) : r.results[j] > r.results[j + 1]
        /\ r.logged = {i \in 1..Len(revisions) :
                          IsLegacy(revisions[i]) /\ revisions[i].check = "Exception"}

\* C20: a flow with a legacy revision that fails with ValueError, one that
\* fails with another exception and a revision of the new engine was listed,
\* and the listing holds the last one only.
C20_Witness ==
    /\ Len(revisions) = 3
    /\ {revisions[1].check, revisions[2].check} = {"ValueError", "Exception"}
    /\ IsLegacy(revisions[1]) /\ IsLegacy(revisions[2]) /\ ~IsLegacy(revisions[3])
    /\ reply.status = "results"
    /\ reply.results = <<3>>

\* C21: no revision save POST of a permitted user ends in an exception that
\* leaves the view: every one is answered with a JSON response.
C21_NoUncaughtException ==
    \A user \in {u \in Users : has_org_perm(u)}, body \in Bodies :
        Revisions_post(flow_obj, revisions, user, body).status # "uncaught"

\* C25: a POST of a user without flows.flow_update is answered with HTTP 403
\* and status "failure", and the flow and its revisions stay as they are,
\* whatever the body is (JSON or not).
C25_NoPermissionForbidden ==
    \A user \in {u \in Users : ~has_org_perm(u)}, body \in Bodies :
        \A r \in {Revisions_post(flow_obj, revisions, user, body)} :
            /\ r.code = 403 /\ r.status = "failure"
            /\ r.description = NO_PERMISSION
            /\ r.revisions = revisions /\ r.flow = flow_obj

\* C25: a POST was answered with the 403 failure, on a flow that has
\* revisions.
C25_Witness ==
    /\ reply.code = 403 /\ reply.status = "failure"
    /\ reply.description = NO_PERMISSION
    /\ Len(revisions) > 0

\* C22: while the engine fails, every request that calls it (a revision read,
\* a change of language with a valid form, a simulation that starts or
\* resumes a session) is answered with an error response, none with an
\* exception that leaves the view.
C22_EngineFailureIsServiceError ==
    mailroom = "down" =>
        /\ \A revision_id \in 1..Len(revisions) :
              Revisions_get_one(revisions, revision_id, mailroom).status = "error"
        /\ \A user \in {u \in Users : has_org_perm(u)}, language \in OrgLanguages :
              ChangeLanguage_post(flow_obj, revisions, user, language, mailroom).status
                  = "error"
        /\ \A body \in {b \in SimulateBodies :
                          /\ b.json
                          /\ \/ "trigger" \in b.keys
                             \/ {"resume", "session"} \subseteq b.keys} :
              Simulate_post(body, mailroom).status = "error"

\* C26: every Simulate POST with a JSON body is answered with a session of
\* the engine or with a JSON error, whichever of the four keys it has.
C26_SimulateAlwaysResponds ==
    \A body \in {b \in SimulateBodies : b.json} :
        Simulate_post(body, mailroom).status \in {"session", "error"}

\* C24: a flow that other flows depend on is not released by a Delete POST:
\* the flows stay as they are, and the response reports the flows that
\* depend on it.
C24_DependentsBlockAndAreReported ==
    \A flow \in DependencyFlows :
        (flow_is_active[flow] /\ dependents(flow_dependencies, flow) # {}) =>
            LET r == Delete_post(flow_is_active, flow_dependencies, flow)
            IN  /\ r.is_active = flow_is_active
                /\ r.context = dependents(flow_dependencies, flow)

\* C23: an upload of a PO file that declares the base language of the flow,
\* or a language the org does not have, is rejected with a form error:
\* no PO file is stored and no revision is saved.
C23_BadLanguageUploadRejected ==
    \A req \in TranslationRequests :
        (/\ req.po = 0
         /\ req.po_file.valid
         /\ req.po_file.language_code # ""
         /\ \/ req.po_file.language_code = base_language
            \/ req.po_file.language_code \notin org_languages) =>
            LET r == ImportTranslation_post(org_languages, po_files, imported, req)
            IN  /\ r.errors # {}
                /\ r.code = 200
                /\ r.po_files = po_files
                /\ r.imported = imported

\* an upload of a file in a language the org does not have was refused, and
\* the flow's base language is one of the org's
C23_Witness ==
    /\ translation.step = "upload"
    /\ translation.declared \in LanguageCodes \ org_languages
    /\ translation.declared # base_language
    /\ translation.errors # {}

\* C30: a revision is saved only by a request with the po parameter, and
\* then in a language of the org that is not the base language of the flow;
\* a request without it saves no revision, and when its form is valid it
\* stores the PO file and redirects.
C30_RevisionOnlyOnConfirm ==
    \A req \in TranslationRequests :
        LET r == ImportTranslation_post(org_languages, po_files, imported, req)
        IN  /\ r.imported # imported =>
                /\ req.po # 0
                /\ r.imported = Append(imported, req.language)
                /\ req.language \in org_languages
                /\ req.language # base_language
            /\ req.po = 0 =>
                /\ r.imported = imported
                /\ r.errors = {} =>
                    /\ r.code = 302
                    /\ r.po_files = Append(po_files, req.po_file.language_code)

\* a translation was imported in the confirm step, while the base language
\* is one of the org's languages
C30_Witness ==
    /\ translation.step = "confirm"
    /\ translation.code = 302
    /\ imported # <<>>
    /\ base_language \in org_languages

\* C27: an accepted Update changes only triggers of one flow that have no
\* groups: every trigger of another flow and every trigger with groups is
\* the row it was, no row is removed, and the rows that are new are
\* triggers of that flow without groups.
C27_OnlyGrouplessTriggersOfFlowChange ==
    [][last' = "update" =>
        \E obj \in 1..Len(flows) :
            /\ Len(triggers') >= Len(triggers)
            /\ \A i \in 1..Len(triggers) :
                  (triggers[i].flow # obj \/ triggers[i].groups # {}) =>
                      triggers'[i] = triggers[i]
            /\ \A i \in (Len(triggers) + 1)..Len(triggers') :
                  /\ triggers'[i].flow = obj
                  /\ triggers'[i].groups = {}]_vars

\* an Update archived a trigger without groups of a flow whose trigger for
\* the same keyword with groups is still not archived
C27_Witness ==
    /\ last = "update"
    /\ \E i \in 1..Len(triggers), j \in 1..Len(triggers) :
        /\ triggers[i].flow = triggers[j].flow
        /\ triggers[i].keyword = triggers[j].keyword
        /\ triggers[i].groups # {}
        /\ ~triggers[i].is_archived
        /\ triggers[j].groups = {}
        /\ triggers[j].is_archived

\* C28: labels nest at most two levels: the parent of a label is another
\* label that exists, and a label that has a parent is the parent of none.
C28_TwoLevels ==
    \A i \in 1..Len(labels) :
        /\ labels[i].parent # i
        /\ labels[i].parent \in 0..Len(labels)
        /\ labels[i].parent # 0 =>
              \A j \in 1..Len(labels) : labels[j].parent # i

\* an Update that posted a parent for a label that is itself a parent was
\* accepted, and the label still has its child and no parent
C28_Witness ==
    /\ label_reply.view = "update"
    /\ label_reply.errors = {}
    /\ label_reply.parent # 0
    /\ labels[label_reply.label].parent = 0
    /\ \E j \in 1..Len(labels) : labels[j].parent = label_reply.label

\* C29: a paging through the runs of a flow, each request passing the last
\* run shown as the cursor, comes to a page without more, and by then every
\* run that matches the filter has been shown.
C29_PagingShowsEveryRun ==
    <>(/\ paging.started
       /\ ~paging.more
       /\ Matching(flow_runs, paging.responded) \subseteq paging.shown)

====
